---- MODULE Spec2Model ----
(***************************************************************************)
(* Token issuance / validation / access-code exchange of the ICE           *)
(* TestPortal integration (src/src/lib/tokens.ts, src/src/lib/testportal.ts*)
(* src/src/handlers/requestToken.ts, src/src/handlers/getAccessCode.ts).   *)
(*                                                                         *)
(* Every invocation of a handler is a request slot.  The code between two  *)
(* awaits runs as one atomic step; awaited calls on DynamoDB, Secrets      *)
(* Manager and the provider return in a later step, so invocations         *)
(* interleave exactly at the awaits.  Time is Unix seconds, as returned by *)
(* nowSeconds().                                                           *)
(***************************************************************************)
EXTENDS Integers, Sequences, FiniteSets, TLC

\* ---------------------------------------------------------------- bounds
MaxTicks == 2          \* number of clock advances in one behaviour

\* Invocation slots.  A Lambda instance runs one invocation at a time:
\* "r2" is in use only where handlers of several instances interleave.
Reqs == {"r1", "r2"}

\* Values randomUUID() can return, and a well-formed string it never returns.
Tokens == {"t1", "t2"}
NeverIssued == "f0"
TokenStrings == Tokens \cup {NeverIssued}

\* generateToken(): a value randomUUID has not returned before.  Fresh
\* values are interchangeable, so "t1" names the first one returned.
generateToken(gen) == IF "t1" \notin gen THEN {"t1"} ELSE Tokens \ gen

\* ------------------------------------------------------- program constants
TOKEN_TTL_SECONDS == 15 * 60
ALLOWED_ORIGIN == "https://my.icecampus.com"
MOCK_ACCESS_CODE == "ABC123MOCK"

\* Clock advances: one second, or one second short of the validity period.
TickSteps == {1, TOKEN_TTL_SECONDS - 1}

\* ------------------------------------------------------------ JS values
Str(s) == [t |-> "string", s |-> s]
Num(s) == [t |-> "number", s |-> s]
Undefined == [t |-> "undefined", s |-> ""]

\* JavaScript truthiness of a value (the ! operator negates it).
Truthy(v) ==
  CASE v.t = "string" -> v.s # ""
    [] v.t = "number" -> v.s # "0"
    [] OTHER -> FALSE

\* typeof v === 'string'
IsString(v) == v.t = "string"

\* ------------------------------------------------------------ token store
NoRecord == [present |-> FALSE, ttl |-> 0, createdAt |-> 0]

\* storeToken that writes the creation time as the expiry.
StoreTokenItemNoTtl(t) ==
  [present |-> TRUE, ttl |-> t, createdAt |-> t]

\* Item of the PutCommand built by storeToken(token) called at time t.
StoreTokenItem(t) ==
  [present |-> TRUE, ttl |-> t + TOKEN_TTL_SECONDS, createdAt |-> t]


\* A format check that tests only "!token".
InvalidTokenFormatFalsyOnly(token) == ~Truthy(token)

\* validateToken, lines 75-78: the input is rejected before any lookup.
InvalidTokenFormat(token) == ~Truthy(token) \/ ~IsString(token)

\* A validator that leaves expiry to the table's TTL mechanism.
TokenExpiredNever(record, t) == FALSE

\* validateToken, lines 98-106: the belt-and-suspenders expiry check.
TokenExpired(record, t) == record.ttl < t

\* A validator without the try/catch: the client's error propagates.
LookupErrorThrows == "throw"

\* validateToken, lines 115-118: what a failed GetCommand turns into.
LookupErrorResult == "false"

\* A validator that takes a missing item for a valid one.
ValidateAfterGetAbsentOk(outcome, record, t) ==
  IF outcome = "error" THEN "false"
  ELSE IF ~record.present THEN "true"
  ELSE IF record.ttl < t THEN "false"
  ELSE "true"

\* validateToken after the GetCommand has returned (outcome "ok" with the
\* item the table held, or "error" when the client threw), evaluated at
\* time t.  The result is "true", "false", or "throw" if it propagated.
ValidateAfterGet(outcome, record, t) ==
  IF outcome = "error" THEN LookupErrorResult
  ELSE IF ~record.present THEN "false"
  ELSE IF TokenExpired(record, t) THEN "false"
  ELSE "true"

\* A single-use validator: a successful validation deletes the item.
StoreAfterValidateConsume(st, key, result) ==
  IF result = "true" /\ key \in DOMAIN st THEN [st EXCEPT ![key] = NoRecord] ELSE st

\* A validator that cleans up: an expired item it finds is deleted.
StoreAfterValidatePurge(st, key, result) ==
  IF result = "false" /\ key \in DOMAIN st THEN [st EXCEPT ![key] = NoRecord] ELSE st

\* A sliding window: a successful validation pushes the expiry out.
StoreAfterValidateRenew(st, key, result) ==
  IF result = "true" /\ key \in DOMAIN st
  THEN [st EXCEPT ![key].ttl = @ + TOKEN_TTL_SECONDS]
  ELSE st

\* The table after validateToken has run on it: it only reads.
StoreAfterValidate(st, key, result) == st

\* ------------------------------------------------------------ HTTP events
Methods == {"OPTIONS", "POST", "GET"}
OtherOrigin == "https://evil.example"

Headers(lower, upper) == [origin |-> lower, Origin |-> upper]
GoodHeaders == Headers(ALLOWED_ORIGIN, "")
HeaderSets == {GoodHeaders, Headers("", ALLOWED_ORIGIN),
               Headers(OtherOrigin, ALLOWED_ORIGIN), Headers("", "")}

\* event.headers?.origin || event.headers?.Origin
OriginHeader(h) == IF h.origin # "" THEN h.origin ELSE h.Origin

\* event.body: unparsable text, absent, a JSON scalar, or a JSON object with
\* the fields token and testId (Undefined when the field is missing), and
\* with or without an email field and a further field.
Body(shape, token, testId) ==
  [shape |-> shape, token |-> token, testId |-> testId,
   email |-> Undefined, extra |-> Undefined]
NoBody == Body("absent", Undefined, Undefined)
TestIds == {"T1"}
TokenFields == {Undefined, Str(""), Num("42")} \cup {Str(s) : s \in TokenStrings}
TestIdFields == {Undefined, Str(""), Num("42")} \cup {Str(s) : s \in TestIds}
ObjectBodies == {Body("object", tk, ti) : tk \in TokenFields, ti \in TestIdFields}
GoodBody == Body("object", Str("t1"), Str("T1"))
\* A well-formed body naming a test the provider does not know.
BogusTestBody == Body("object", Str("t1"), Str("bogus"))
Bodies == {Body("badjson", Undefined, Undefined), NoBody,
           Body("scalar", Undefined, Undefined)} \cup ObjectBodies

Event(m, h, b) == [method |-> m, headers |-> h, body |-> b]
NoEvent == Event("", Headers("", ""), NoBody)

\* Requests to the issue endpoint: every method and origin without a body,
\* and an unparsable body behind the allowed method and origin.
IssueEvents ==
  {Event(m, h, NoBody) : m \in Methods, h \in HeaderSets}
  \cup {Event("POST", GoodHeaders, Body("badjson", Undefined, Undefined))}

\* Requests to the exchange endpoint: every method and origin with a
\* well-formed body, every origin with an unparsable body, and every body
\* behind the allowed method and origin.
ExchangeEvents ==
  {Event(m, h, GoodBody) : m \in Methods, h \in HeaderSets}
  \cup {Event("POST", h, Body("badjson", Undefined, Undefined)) : h \in HeaderSets}
  \cup {Event("POST", GoodHeaders, b) : b \in Bodies \cup {BogusTestBody}}

\* The object body b with an email field and a further field.
WithFields(b, email, extra) == [b EXCEPT !.email = email, !.extra = extra]
EmailFields == {Undefined, Str("student@example.com"), Num("42")}
ExtraFields == {Undefined, Str("x")}

\* Requests to the exchange endpoint as the client and the README send
\* them: with and without an email or another field, around a body with
\* both required fields and one without testId.
PairEvents ==
  {Event("POST", GoodHeaders, WithFields(b, e, Undefined)) :
     b \in {GoodBody, Body("object", Str("t1"), Undefined)}, e \in EmailFields}
  \cup {Event("POST", GoodHeaders, WithFields(GoodBody, Str("student@example.com"), x)) :
           x \in ExtraFields}

\* Arguments of a direct validateToken call.
TokenInputs == {Undefined, Str(""), Num("42"), Num("0")} \cup {Str(s) : s \in TokenStrings}

\* A boundary without the origin check.
BoundaryStatusNoOrigin(ev) ==
  IF ev.method = "OPTIONS" THEN 204
  ELSE IF ev.method # "POST" THEN 405
  ELSE 0

\* A boundary that looks at the origin before the method.
BoundaryStatusOriginFirst(ev) ==
  IF OriginHeader(ev.headers) # ALLOWED_ORIGIN THEN 403
  ELSE IF ev.method = "OPTIONS" THEN 204
  ELSE IF ev.method # "POST" THEN 405
  ELSE 0

\* A boundary that lets a request without any origin header through.
BoundaryStatusOriginOptional(ev) ==
  IF ev.method = "OPTIONS" THEN 204
  ELSE IF ev.method # "POST" THEN 405
  ELSE IF OriginHeader(ev.headers) \notin {ALLOWED_ORIGIN, ""} THEN 403
  ELSE 0

\* Handlers, lines 81-105 of getAccessCode.ts and 55-79 of requestToken.ts:
\* the status the boundary answers with, or 0 when the request passes.
BoundaryStatus(ev) ==
  IF ev.method = "OPTIONS" THEN 204
  ELSE IF ev.method # "POST" THEN 405
  ELSE IF OriginHeader(ev.headers) # ALLOWED_ORIGIN THEN 403
  ELSE 0

\* JSON.parse(event.body) throws.
JsonParseFails(body) == body.shape = "badjson"

\* A body check that also asks for an email, as the README's example sends.
validateRequestBodyWithEmail(body) ==
  /\ body.shape = "object"
  /\ IsString(body.token) /\ body.token.s # ""
  /\ IsString(body.testId) /\ body.testId.s # ""
  /\ IsString(body.email) /\ body.email.s # ""

\* A body check that forgets testId.
validateRequestBodyTokenOnly(body) ==
  /\ body.shape = "object"
  /\ IsString(body.token) /\ body.token.s # ""

\* validateRequestBody of getAccessCode.ts.
validateRequestBody(body) ==
  /\ body.shape = "object"
  /\ IsString(body.token) /\ body.token.s # ""
  /\ IsString(body.testId) /\ body.testId.s # ""

\* ------------------------------------------------------------- responses
NoError == [text |-> "", status |-> 0]
ErrorText(text) == [text |-> text, status |-> 0]

\* APIGatewayProxyResult: the status and the fields of the JSON body
\* ("" and FALSE stand for a field that is not in the body).
Response(status, message, token, accessCode, dev, error) ==
  [statusCode |-> status, message |-> message, token |-> token,
   accessCode |-> accessCode, dev |-> dev, error |-> error]
NoResponse == Response(0, "", "", "", FALSE, NoError)

\* createResponse(status, { message })
MessageResponse(status, message) == Response(status, message, "", "", FALSE, NoError)

\* A handler that lets the parse error reach a generic error answer.
ParseErrorResponseInternal == MessageResponse(500, "Internal server error")

\* getAccessCode handler, lines 107-114: the answer when JSON.parse throws.
ParseErrorResponse == MessageResponse(400, "Invalid JSON in request body")

\* The answer of the boundary checks shared by both handlers.
BoundaryResponse(status) ==
  CASE status = 204 -> Response(204, "", "", "", FALSE, NoError)
    [] status = 405 -> MessageResponse(405, "Method not allowed")
    [] OTHER -> MessageResponse(403, "Forbidden")

\* A handler that answers with the token whatever storeToken did.
IssueResponseAlways(outcome, token) == Response(200, "", token, "", FALSE, NoError)

\* requestToken handler, lines 81-102: the response once storeToken has
\* resolved (outcome "ok") or thrown.
IssueResponse(outcome, token) ==
  IF outcome = "ok" THEN Response(200, "", token, "", FALSE, NoError)
  ELSE Response(500, "Internal server error", "", "", FALSE,
                ErrorText("store write failed"))

\* A handler that ignores the result of validateToken.
TokenRefusedNever(isValidToken) == FALSE

\* getAccessCode handler, lines 136-141: the request is refused.
TokenRefused(isValidToken) == isValidToken # "true"

\* ------------------------------------------------------------- secrets
\* Content of the secret in Secrets Manager: missing (the client throws
\* ResourceNotFoundException), without SecretString, plain text, or JSON.
SecretMissing == "<missing>"
JsonSecret == "{\"apiKey\":\"k2\"}"
SecretContents == {SecretMissing, "", "k1", JsonSecret}
NotCached == "<none>"

\* getSecret, lines 148-176: the value returned once the client has
\* answered; "" stands for null.
GetSecretResult(outcome, content) ==
  IF outcome = "error" THEN ""
  ELSE IF content = SecretMissing THEN ""
  ELSE content

\* A getSecret that keeps the value cached first.
CacheAfterGetKeepFirst(cache, value) ==
  IF cache # NotCached \/ value = "" THEN cache ELSE value

\* A getSecret that also caches the absence of a value.
CacheAfterGetMemoAbsent(cache, value) == value

\* getSecret, lines 157-163: the cache after the client has answered.
CacheAfterGet(cache, value) == IF value = "" THEN cache ELSE value

\* getTestPortalApiKey, lines 193-204: parsed.apiKey || parsed.api_key ||
\* secretValue; "" stands for null.
ApiKeyOf(secretValue) ==
  IF secretValue = "" THEN ""
  ELSE IF secretValue = JsonSecret THEN "k2"
  ELSE secretValue

\* ------------------------------------------------------------- provider
Entry(a, b, c) == [accessCode |-> a, access_code |-> b, code |-> c]
NoEntry == Entry("", "", "")
Reply(kind, ok, status, hasEntry, entry) ==
  [kind |-> kind, ok |-> ok, status |-> status, hasEntry |-> hasEntry, entry |-> entry]

\* No fetch has settled.
NoReply == Reply("none", FALSE, 0, FALSE, NoEntry)

\* What fetch can produce: a transport failure, a non-OK status, or an OK
\* response whose JSON has no accessCodes, or one entry with some fields.
ProviderReplies ==
  {Reply("throw", FALSE, 0, FALSE, NoEntry),
   Reply("http", FALSE, 500, FALSE, NoEntry),
   Reply("http", TRUE, 200, FALSE, NoEntry),
   Reply("http", TRUE, 200, TRUE, NoEntry),
   Reply("http", TRUE, 200, TRUE, Entry("P1", "P2", "")),
   Reply("http", TRUE, 200, TRUE, Entry("", "", "P3")),
   Reply("http", TRUE, 200, TRUE, Entry("", "P2", "P3")),
   Reply("http", TRUE, 200, TRUE, Entry("P1", "P2", "P3"))}

\* AccessCodeResult
Result(success, accessCode, error, dev) ==
  [success |-> success, accessCode |-> accessCode, error |-> error,
   isDevelopmentMode |-> dev]

\* requestAccessCode, lines 60-72.
DevModeResult == Result(TRUE, MOCK_ACCESS_CODE, NoError, TRUE)

\* An extraction that tries the field names in the opposite order.
ExtractAccessCodeReversed(reply) ==
  IF ~reply.hasEntry THEN ""
  ELSE IF reply.entry.code # "" THEN reply.entry.code
  ELSE IF reply.entry.access_code # "" THEN reply.entry.access_code
  ELSE reply.entry.accessCode

\* requestAccessCode, lines 114-118.
ExtractAccessCode(reply) ==
  IF ~reply.hasEntry THEN ""
  ELSE IF reply.entry.accessCode # "" THEN reply.entry.accessCode
  ELSE IF reply.entry.access_code # "" THEN reply.entry.access_code
  ELSE reply.entry.code

\* A client that does not look at response.ok before reading the body.
ProviderResultOkUnchecked(reply) ==
  IF reply.kind = "throw" THEN Result(FALSE, "", ErrorText("fetch failed"), FALSE)
  ELSE IF ExtractAccessCode(reply) = ""
    THEN Result(FALSE, "", ErrorText("TestPortal API response did not contain an access code"), FALSE)
  ELSE Result(TRUE, ExtractAccessCode(reply), NoError, FALSE)

\* requestAccessCode, lines 96-150: the result once fetch has settled.
ProviderResult(reply) ==
  IF reply.kind = "throw" THEN Result(FALSE, "", ErrorText("fetch failed"), FALSE)
  ELSE IF ~reply.ok
    THEN Result(FALSE, "", [text |-> "TestPortal API returned", status |-> reply.status], FALSE)
  ELSE IF ExtractAccessCode(reply) = ""
    THEN Result(FALSE, "", ErrorText("TestPortal API response did not contain an access code"), FALSE)
  ELSE Result(TRUE, ExtractAccessCode(reply), NoError, FALSE)

\* A handler that leaves the _dev flag out of the body.
ExchangeResponseNoFlag(result) ==
  IF ~result.success
    THEN Response(502, "Failed to retrieve access code from TestPortal", "", "",
                  FALSE, result.error)
  ELSE Response(200, "", "", result.accessCode, FALSE, NoError)

\* getAccessCode handler, lines 146-167.
ExchangeResponse(result) ==
  IF ~result.success
    THEN Response(502, "Failed to retrieve access code from TestPortal", "", "",
                  FALSE, result.error)
  ELSE Response(200, "", "", result.accessCode, result.isDevelopmentMode, NoError)

\* ------------------------------------------------------- admin surface
\* ALLOWED_ORIGIN of the adminTests and adminLogin handlers.
ADMIN_ALLOWED_ORIGIN == "https://testportalurl.icecampus.com"

AdminGoodHeaders == Headers(ADMIN_ALLOWED_ORIGIN, "")
AdminHeaderSets == {AdminGoodHeaders, Headers("", ADMIN_ALLOWED_ORIGIN),
                    Headers(ALLOWED_ORIGIN, ""), Headers("", "")}

\* The headers extractPassword reads: x-admin-password, X-Admin-Password,
\* authorization, Authorization ("" when absent).
PwHeaders(x, X, auth, Auth) == [x |-> x, X |-> X, auth |-> auth, Auth |-> Auth]
NoPw == PwHeaders("", "", "", "")
PwHeaderSets ==
  {NoPw,
   PwHeaders("pw", "", "", ""), PwHeaders("", "pw2", "", ""),
   PwHeaders("bad", "", "Bearer pw", ""),
   PwHeaders("", "", "Bearer pw", ""), PwHeaders("", "", "", "bearer pw2"),
   PwHeaders("", "", "Basic pw", ""), PwHeaders("", "", "", "Bearer bad")}

\* authHeader.match(/^Bearer\s+(.+)$/i): the captured group, "" without a
\* match.
BearerOf(authHeader) ==
  CASE authHeader = "Bearer pw" -> "pw"
    [] authHeader = "bearer pw2" -> "pw2"
    [] authHeader = "Bearer bad" -> "bad"
    [] OTHER -> ""

\* extractPassword of adminTests; "" stands for null.
extractPassword(h) ==
  IF h.x # "" THEN h.x
  ELSE IF h.X # "" THEN h.X
  ELSE IF h.auth # "" THEN BearerOf(h.auth)
  ELSE BearerOf(h.Auth)

\* Content of the admin password secret: missing, empty, plain or JSON.
JsonPassword == "{\"password\":\"pw2\"}"
AdminSecretContents == {SecretMissing, "", "pw", JsonPassword}

\* getAdminPassword, lines 222-228: parsed.password ||
\* parsed.adminPassword || secretValue; "" stands for null.
PasswordOf(secretValue) ==
  IF secretValue = "" THEN ""
  ELSE IF secretValue = JsonPassword THEN "pw2"
  ELSE secretValue

\* Requests to adminTests: every method and origin with a password, and
\* every password header behind the allowed method and origin.
AdminTestsEvents ==
  {<<Event(m, h, NoBody), PwHeaders("pw", "", "", "")>> :
      m \in Methods, h \in AdminHeaderSets}
  \cup {<<Event("GET", AdminGoodHeaders, NoBody), p>> : p \in PwHeaderSets}

\* The password field of a parsed adminLogin body.
LoginPasswords == {Undefined, Str(""), Num("42"), Str("pw"), Str("pw2"), Str("bad")}

\* Requests to adminLogin: every method and origin with a good body, and
\* every body behind the allowed method and origin.  The body's shape is in
\* the event, its password field beside it.
AdminLoginEvents ==
  {<<Event(m, h, Body("object", Undefined, Undefined)), Str("pw")>> :
      m \in Methods, h \in AdminHeaderSets}
  \cup {<<Event("POST", AdminGoodHeaders, Body("object", Undefined, Undefined)), p>> :
          p \in LoginPasswords}
  \cup {<<Event("POST", AdminGoodHeaders, Body(sh, Undefined, Undefined)), Undefined>> :
          sh \in {"badjson", "absent"}}

\* Boundary of adminTests (GET) and adminLogin (POST): the status the
\* handler answers with, or 0 when the request passes.
AdminBoundaryStatus(ev, method) ==
  IF ev.method = "OPTIONS" THEN 204
  ELSE IF ev.method # method THEN 405
  ELSE IF OriginHeader(ev.headers) # ADMIN_ALLOWED_ORIGIN THEN 403
  ELSE 0

\* createResponse of the admin handlers: a message, or the provider's JSON.
AdminResponse(status, message, data) ==
  [statusCode |-> status, message |-> message, data |-> data]

AdminBoundaryResponse(status) ==
  CASE status = 204 -> AdminResponse(204, "", "")
    [] status = 405 -> AdminResponse(405, "Method not allowed", "")
    [] OTHER -> AdminResponse(403, "Forbidden", "")

\* What fetch of the tests headers can produce: a transport failure, a
\* non-OK status, an OK response with JSON, an OK response that is not JSON.
TestsReply(kind, ok, status, json) ==
  [kind |-> kind, ok |-> ok, status |-> status, json |-> json]
NotJson == "<html>"
TestsReplies ==
  {TestsReply("throw", FALSE, 0, ""),
   TestsReply("http", FALSE, 500, "E1"),
   TestsReply("http", FALSE, 401, "E2"),
   TestsReply("http", TRUE, 200, "D1"),
   TestsReply("http", TRUE, 200, NotJson)}

\* adminTests handler, lines 105-128: the answer once fetch has settled.
TestsResponse(reply) ==
  IF reply.kind = "throw" \/ ~reply.ok \/ reply.json = NotJson
  THEN AdminResponse(502, "Failed to retrieve tests list from TestPortal", "")
  ELSE AdminResponse(200, "", reply.json)

\* ------------------------------------------------------------- client
\* The link updater (src/unnamed/part_003; part_004 is the variant that
\* sends an email and opens the start page in a new window).
Scripts == {"part_003", "part_004"}

\* window.circleUser: absent, a user with name and email, or a user
\* without them.
Users == {"none", "full", "bare"}

\* Links that match SEL, with the test id in their href.
LinkIds == {"a1", "a2"}
TestIdOf(a) == IF a = "a1" THEN "T1" ELSE "PLACEHOLDER_TESTID"

\* A link element: in the document or not, its dataset.testportalHandled,
\* and the number of click listeners addEventListener has registered.
Link(present, handled, listeners) ==
  [present |-> present, handled |-> handled, listeners |-> listeners]
NoLink == Link(FALSE, FALSE, 0)

\* Click handler invocations; invocation f talks to the backend
\* invocation of the same name.
Flows == Reqs

\* A click handler invocation: where it stands, the click that started
\* it, its locals, the requests it has sent, and the alert it has shown.
NoFlow ==
  [pc |-> "idle", click |-> 0, link |-> "", user |-> "none",
   token |-> "", sentToken |-> "", accessCode |-> "",
   tokenRequests |-> 0, codeRequests |-> 0, submits |-> 0, alert |-> ""]

\* The page before the script has run, and no page at all.
Page(script, user) ==
  [script |-> script, user |-> user, links |-> [a \in LinkIds |-> NoLink],
   flows |-> [f \in Flows |-> NoFlow], clicks |-> 0]
ClientOff == Page("", "none")

\* The requests the script's fetch calls send from the community site.
ClientTokenEvent == Event("POST", GoodHeaders, NoBody)
ClientCodeEvent(script, token, testId) ==
  Event("POST", GoodHeaders,
        WithFields(Body("object", Str(token), Str(testId)),
                   IF script = "part_004" THEN Str("student@example.com") ELSE Undefined,
                   Undefined))

\* requestToken of the script: data.token of an ok response, else null
\* ("" stands for null).
ClientToken(resp) == IF resp.statusCode = 200 THEN resp.token ELSE ""

\* requestAccessCode of the script: data.accessCode of an ok response,
\* else null.
ClientAccessCode(resp) == IF resp.statusCode = 200 THEN resp.accessCode ELSE ""

\* ---------------------------------------------------------------- state
VARIABLES
  now,          \* Unix time in seconds (nowSeconds())
  ticks,        \* number of clock advances so far
  store,        \* the DynamoDB tokens table: token -> item or NoRecord
  written,      \* history: the item each applied PutCommand wrote
  generated,    \* history: the tokens generateToken has returned
  validated,    \* history: the tokens validateToken has returned true for
  exchanged,    \* history: the tokens a 200 exchange response was given for
  req,          \* the invocations: handler position, locals, response
  secretName,   \* TESTPORTAL_SECRET_NAME is set
  secret,       \* the secret's content in Secrets Manager
  secretsCache, \* the module-level secretsCache entry of that secret
  admin,        \* the admin password: ADMIN_PASSWORD_SECRET_NAME is set, the
                \* secret's content, and its secretsCache entry
  client        \* the page the link updater runs in: window.circleUser, the
                \* matching links, and the click handler invocations

vars == <<now, ticks, store, written, generated, validated, exchanged, req, secretName, secret, secretsCache, admin, client>>

\* An invocation slot that is not running.  kind is "issue" (requestToken
\* handler), "exchange" (getAccessCode handler) or "validate" (a direct
\* validateToken call); pc is the await the invocation is suspended at.
Idle ==
  [kind |-> "idle", pc |-> "idle", ev |-> NoEvent, arg |-> Undefined,
   key |-> "", item |-> NoRecord,
   getOutcome |-> "none", record |-> NoRecord, w |-> NoRecord, at |-> 0,
   usedBefore |-> FALSE, exchangedBefore |-> FALSE, valid |-> "none",
   lookups |-> 0, puts |-> 0, putOutcome |-> "none",
   secretCalls |-> 0, secretOutcome |-> "none", providerCalls |-> 0,
   apiKey |-> "",
   pw |-> NoPw, password |-> Undefined, expected |-> "", adminCalls |-> 0,
   reply |-> NoReply, threw |-> FALSE, resp |-> NoResponse]

\* The admin password secret: name set or not, content, cache entry.
AdminSecret(name, content, cache) == [name |-> name, content |-> content, cache |-> cache]

\* ADMIN_PASSWORD_SECRET_NAME is not set.
AdminUnset == AdminSecret(FALSE, SecretMissing, NotCached)

\* A slot that is not in use.
Off == [Idle EXCEPT !.kind = "off", !.pc = "off"]

Init ==
  /\ now = 0
  /\ ticks = 0
  /\ store = [t \in TokenStrings |-> NoRecord]
  /\ written = [t \in TokenStrings |-> NoRecord]
  /\ generated = {}
  /\ validated = {}
  /\ exchanged = {}
  /\ req = [r \in Reqs |-> IF r = "r1" THEN Idle ELSE Off]
  /\ secretName \in BOOLEAN
  /\ secret \in IF secretName THEN SecretContents ELSE {SecretMissing}
  /\ secretsCache = NotCached
  /\ admin = AdminUnset
  /\ client = ClientOff

\* With one invocation at a time a response is delivered as soon as it is
\* produced: nothing else happens while the invocation holds its response.
\* Interleaved invocations do not wait for each other.
Delivered ==
  (\E r \in Reqs : req[r].pc = "off") => \A r \in Reqs : req[r].pc # "done"

\* ------------------------------------------------------------ environment
\* The clock advances.
Tick ==
  /\ Delivered
  /\ ticks < MaxTicks
  /\ \E d \in TickSteps : now' = now + d
  /\ ticks' = ticks + 1
  /\ UNCHANGED <<store, written, generated, validated, exchanged, req, admin, client, secretName, secret, secretsCache>>

\* DynamoDB's TTL mechanism deletes an item whose ttl has been reached.
Evict ==
  /\ Delivered
  /\ \E t \in TokenStrings :
       /\ store[t].present
       /\ store[t].ttl <= now
       /\ store' = [store EXCEPT ![t] = NoRecord]
  /\ UNCHANGED <<now, ticks, written, generated, validated, exchanged, req, admin, client, secretName, secret, secretsCache>>

\* An operator creates, rotates or deletes the secret.
SetSecret ==
  /\ Delivered
  /\ secretName
  /\ \E c \in SecretContents \ {secret} : secret' = c
  /\ UNCHANGED <<now, ticks, store, written, generated, validated, exchanged, req, admin, client, secretName, secretsCache>>

\* The response of a finished invocation has been delivered.
Recycle(r) ==
  /\ req[r].pc = "done"
  /\ req' = [req EXCEPT ![r] = Idle]
  /\ UNCHANGED <<now, ticks, store, written, generated, validated, exchanged, admin, client, secretName, secret, secretsCache>>

\* ------------------------------------------------------------ issue
\* requestToken handler up to the await of storeToken: boundary checks,
\* generateToken, and the PutCommand of storeToken is sent.
IssueStart(r) ==
  /\ Delivered
  /\ req[r].pc = "idle"
  /\ \E ev \in IssueEvents :
       IF BoundaryStatus(ev) # 0
       THEN /\ req' = [req EXCEPT ![r] = [Idle EXCEPT !.kind = "issue", !.pc = "done",
                         !.ev = ev, !.resp = BoundaryResponse(BoundaryStatus(ev))]]
            /\ UNCHANGED generated
       ELSE \E token \in generateToken(generated) :
            /\ generated' = generated \cup {token}
            /\ req' = [req EXCEPT ![r] = [Idle EXCEPT !.kind = "issue", !.pc = "awaitPut",
                         !.ev = ev, !.key = token, !.item = StoreTokenItem(now),
                         !.puts = 1]]
  /\ UNCHANGED <<now, ticks, store, written, validated, exchanged, admin, client, secretName, secret, secretsCache>>

\* An issue handler without the try/catch around storeToken.
PutReturnUncaught(r) ==
  /\ Delivered
  /\ req[r].pc = "awaitPut"
  /\ \E outcome \in {"ok", "error", "lost"} :
       /\ IF outcome = "error"
          THEN UNCHANGED <<store, written>>
          ELSE /\ store' = [store EXCEPT ![req[r].key] = req[r].item]
               /\ written' = [written EXCEPT ![req[r].key] = req[r].item]
       /\ req' = [req EXCEPT ![r] =
            IF outcome # "ok"
            THEN [req[r] EXCEPT !.pc = "done", !.threw = TRUE, !.putOutcome = outcome]
            ELSE [req[r] EXCEPT !.pc = "done", !.putOutcome = outcome,
                                !.resp = IssueResponse(outcome, req[r].key)]]
  /\ UNCHANGED <<now, ticks, generated, validated, exchanged, admin, client, secretName, secret, secretsCache>>

\* An issuer that sends the PutCommand once more when the first one failed.
PutReturnRetry(r) ==
  /\ Delivered
  /\ req[r].pc = "awaitPut"
  /\ \E outcome \in {"ok", "error", "lost"} :
       /\ IF outcome = "error"
          THEN UNCHANGED <<store, written>>
          ELSE /\ store' = [store EXCEPT ![req[r].key] = req[r].item]
               /\ written' = [written EXCEPT ![req[r].key] = req[r].item]
       /\ req' = [req EXCEPT ![r] =
            IF outcome # "ok" /\ req[r].puts < 2
            THEN [req[r] EXCEPT !.puts = @ + 1]
            ELSE [req[r] EXCEPT !.pc = "done", !.putOutcome = outcome,
                                !.resp = IssueResponse(outcome, req[r].key)]]
  /\ UNCHANGED <<now, ticks, generated, validated, exchanged, admin, client, secretName, secret, secretsCache>>

\* The PutCommand settles: applied and acknowledged ("ok"), refused
\* ("error"), or applied while the client throws ("lost"); the handler
\* answers.
PutReturn(r) ==
  /\ Delivered
  /\ req[r].pc = "awaitPut"
  /\ \E outcome \in {"ok", "error", "lost"} :
       /\ IF outcome = "error"
          THEN UNCHANGED <<store, written>>
          ELSE /\ store' = [store EXCEPT ![req[r].key] = req[r].item]
               /\ written' = [written EXCEPT ![req[r].key] = req[r].item]
       /\ req' = [req EXCEPT ![r].pc = "done", ![r].putOutcome = outcome,
                              ![r].resp = IssueResponse(outcome, req[r].key)]
  /\ UNCHANGED <<now, ticks, generated, validated, exchanged, admin, client, secretName, secret, secretsCache>>

\* ------------------------------------------------------------ validate
\* The item a GetCommand for key reads from table st.
ItemOf(st, key) == IF key \in DOMAIN st THEN st[key] ELSE NoRecord

\* The tokens validated once validateToken(key) has returned result.
ValidatedAfter(vd, key, result) ==
  IF result = "true" THEN vd \cup {key} ELSE vd

\* The tokens exchanged once invocation q has made its step.
ExchangedAfter(ex, q) ==
  IF q.kind = "exchange" /\ q.pc = "done" /\ q.resp.statusCode = 200
  THEN ex \cup {q.key}
  ELSE ex

\* A finished invocation with its response.
Done(q, resp) == [q EXCEPT !.pc = "done", !.resp = resp]

\* An invocation ended by an exception that nothing caught.
Thrown(q) == [q EXCEPT !.pc = "done", !.threw = TRUE]

\* A direct call validateToken(v), up to the await of the GetCommand.
ValidateStart(r) ==
  /\ Delivered
  /\ req[r].pc = "idle"
  /\ \E v \in TokenInputs :
       req' = [req EXCEPT ![r] =
         IF InvalidTokenFormat(v)
         THEN [Idle EXCEPT !.kind = "validate", !.pc = "done", !.arg = v,
                           !.valid = "false"]
         ELSE [Idle EXCEPT !.kind = "validate", !.pc = "awaitGet", !.arg = v,
                           !.key = v.s, !.lookups = 1]]
  /\ UNCHANGED <<now, ticks, store, written, generated, validated, exchanged, admin, client, secretName, secret, secretsCache>>

\* A client that calls the provider whether or not it has a key.
WithApiKeyAlwaysCall(q, apiKey) ==
  [q EXCEPT !.pc = "awaitFetch", !.apiKey = apiKey, !.providerCalls = @ + 1]

\* requestAccessCode once the API key is known (lines 60-94): development
\* mode without a key, otherwise the provider is called.
WithApiKey(q, apiKey) ==
  IF apiKey = ""
  THEN Done(q, ExchangeResponse(DevModeResult))
  ELSE [q EXCEPT !.pc = "awaitFetch", !.apiKey = apiKey, !.providerCalls = @ + 1]

\* A getSecret that asks the secret store on every call.
AfterValidNoCache(q) ==
  IF ~secretName THEN WithApiKey(q, "")
  ELSE [q EXCEPT !.pc = "awaitSecret", !.secretCalls = @ + 1]

\* getAccessCode handler after a valid token (line 144): requestAccessCode
\* calls getTestPortalApiKey, which calls getSecret unless the secret name
\* is not set; a cached secret is used without a call.
AfterValid(q) ==
  IF ~secretName THEN WithApiKey(q, "")
  ELSE IF secretsCache # NotCached THEN WithApiKey(q, ApiKeyOf(secretsCache))
  ELSE [q EXCEPT !.pc = "awaitSecret", !.secretCalls = @ + 1]

\* A handler that asks for the access code whatever validateToken returned.
AfterValidateUnchecked(q) ==
  IF q.valid = "throw" THEN Thrown(q) ELSE AfterValid(q)

\* getAccessCode handler after validateToken has returned (lines 134-144).
AfterValidate(q) ==
  IF q.valid = "throw" THEN Thrown(q)
  ELSE IF TokenRefused(q.valid) THEN Done(q, MessageResponse(401, "Invalid or expired token"))
  ELSE AfterValid(q)

\* getAccessCode handler up to the await inside validateToken: boundary
\* checks, JSON.parse, validateRequestBody, and validateToken's own check
\* of its argument.
ExchangeOn(r, ev) ==
  LET q == [Idle EXCEPT !.kind = "exchange", !.ev = ev]
  IN req' = [req EXCEPT ![r] =
       IF BoundaryStatus(ev) # 0
         THEN Done(q, BoundaryResponse(BoundaryStatus(ev)))
       ELSE IF JsonParseFails(ev.body)
         THEN Done(q, ParseErrorResponse)
       ELSE IF ~validateRequestBody(ev.body)
         THEN Done(q, MessageResponse(400, "Missing required fields: token and testId are required"))
       ELSE IF InvalidTokenFormat(ev.body.token)
         THEN AfterValidate([q EXCEPT !.arg = ev.body.token, !.valid = "false"])
       ELSE [q EXCEPT !.pc = "awaitGet", !.arg = ev.body.token,
                      !.key = ev.body.token.s, !.lookups = 1]]

\* A handler that parses the body of a POST before it looks at the origin.
ExchangeStartParseFirst(r) ==
  /\ Delivered
  /\ req[r].pc = "idle"
  /\ \E ev \in ExchangeEvents :
       LET q == [Idle EXCEPT !.kind = "exchange", !.ev = ev]
       IN req' = [req EXCEPT ![r] =
            IF BoundaryStatus(ev) \in {204, 405}
              THEN Done(q, BoundaryResponse(BoundaryStatus(ev)))
            ELSE IF JsonParseFails(ev.body)
              THEN Done(q, ParseErrorResponse)
            ELSE IF BoundaryStatus(ev) # 0
              THEN Done(q, BoundaryResponse(BoundaryStatus(ev)))
            ELSE IF ~validateRequestBody(ev.body)
              THEN Done(q, MessageResponse(400, "Missing required fields: token and testId are required"))
            ELSE IF InvalidTokenFormat(ev.body.token)
              THEN AfterValidate([q EXCEPT !.arg = ev.body.token, !.valid = "false"])
            ELSE [q EXCEPT !.pc = "awaitGet", !.arg = ev.body.token,
                           !.key = ev.body.token.s, !.lookups = 1]]
  /\ UNCHANGED <<now, ticks, store, written, generated, validated, exchanged, admin, client, secretName, secret, secretsCache>>

\* An invocation of the getAccessCode handler begins.
ExchangeStart(r) ==
  /\ Delivered
  /\ req[r].pc = "idle"
  /\ \E ev \in ExchangeEvents : ExchangeOn(r, ev)
  /\ UNCHANGED <<now, ticks, store, written, generated, validated, exchanged, admin, client, secretName, secret, secretsCache>>

\* An invocation of the getAccessCode handler begins on a body that may
\* carry fields beside token and testId.
ExchangePairStart(r) ==
  /\ Delivered
  /\ req[r].pc = "idle"
  /\ \E ev \in PairEvents : ExchangeOn(r, ev)
  /\ UNCHANGED <<now, ticks, store, written, generated, validated, exchanged, admin, client, secretName, secret, secretsCache>>

\* The GetCommand of validateToken settles (the item is read, or the
\* client throws) and validateToken returns; a direct call ends, the
\* getAccessCode handler goes on.
GetReturn(r) ==
  /\ Delivered
  /\ req[r].pc = "awaitGet"
  /\ \E outcome \in {"ok", "error"} :
       LET key == req[r].key
           record == IF outcome = "ok" THEN ItemOf(store, key) ELSE NoRecord
           v == ValidateAfterGet(outcome, record, now)
           q == [req[r] EXCEPT !.getOutcome = outcome, !.record = record,
                               !.w = ItemOf(written, key), !.at = now,
                               !.usedBefore = key \in validated,
                               !.exchangedBefore = key \in exchanged, !.valid = v]
       IN /\ store' = StoreAfterValidate(store, key, v)
          /\ validated' = ValidatedAfter(validated, key, v)
          /\ req' = [req EXCEPT ![r] =
               IF q.kind = "validate"
               THEN (IF v = "throw" THEN Thrown(q) ELSE [q EXCEPT !.pc = "done"])
               ELSE AfterValidate(q)]
          /\ exchanged' = ExchangedAfter(exchanged, req'[r])
  /\ UNCHANGED <<now, ticks, written, generated, admin, client, secretName, secret, secretsCache>>

\* A client that reports a failed secret lookup as an upstream failure.
SecretReturnErrorFails(r) ==
  /\ Delivered
  /\ req[r].pc = "awaitSecret"
  /\ \E outcome \in {"ok", "error"} :
       LET value == GetSecretResult(outcome, secret)
           q == [req[r] EXCEPT !.secretOutcome = outcome]
       IN /\ secretsCache' = CacheAfterGet(secretsCache, value)
          /\ req' = [req EXCEPT ![r] =
               IF outcome = "error"
               THEN Done(q, ExchangeResponse(
                         Result(FALSE, "", ErrorText("secret lookup failed"), FALSE)))
               ELSE WithApiKey(q, ApiKeyOf(value))]
          /\ exchanged' = ExchangedAfter(exchanged, req'[r])
  /\ UNCHANGED <<now, ticks, store, written, generated, validated, admin, client, secretName, secret>>

\* The GetSecretValueCommand of getSecret settles; getTestPortalApiKey and
\* requestAccessCode go on.
SecretReturn(r) ==
  /\ Delivered
  /\ req[r].pc = "awaitSecret"
  /\ \E outcome \in {"ok", "error"} :
       LET value == GetSecretResult(outcome, secret)
       IN /\ secretsCache' = CacheAfterGet(secretsCache, value)
          /\ req' = [req EXCEPT ![r] =
               WithApiKey([req[r] EXCEPT !.secretOutcome = outcome], ApiKeyOf(value))]
          /\ exchanged' = ExchangedAfter(exchanged, req'[r])
  /\ UNCHANGED <<now, ticks, store, written, generated, validated, admin, client, secretName, secret>>

\* A client that sends the request once more when the first call failed.
FetchReturnRetry(r) ==
  /\ Delivered
  /\ req[r].pc = "awaitFetch"
  /\ \E reply \in ProviderReplies :
       /\ req' = [req EXCEPT ![r] =
            IF ~ProviderResult(reply).success /\ req[r].providerCalls < 2
            THEN [req[r] EXCEPT !.providerCalls = @ + 1, !.reply = reply]
            ELSE Done([req[r] EXCEPT !.reply = reply],
                      ExchangeResponse(ProviderResult(reply)))]
       /\ exchanged' = ExchangedAfter(exchanged, req'[r])
  /\ UNCHANGED <<now, ticks, store, written, generated, validated, admin, client, secretName, secret, secretsCache>>

\* fetch settles; requestAccessCode returns and the handler answers.
FetchReturn(r) ==
  /\ Delivered
  /\ req[r].pc = "awaitFetch"
  /\ \E reply \in ProviderReplies :
       /\ req' = [req EXCEPT ![r] = Done([req[r] EXCEPT !.reply = reply],
                                         ExchangeResponse(ProviderResult(reply)))]
       /\ exchanged' = ExchangedAfter(exchanged, req'[r])
  /\ UNCHANGED <<now, ticks, store, written, generated, validated, admin, client, secretName, secret, secretsCache>>

\* ------------------------------------------------------------ admin
\* An operator creates, changes or deletes the admin password secret.
SetAdminSecret ==
  /\ Delivered
  /\ admin.name
  /\ \E c \in AdminSecretContents \ {admin.content} :
       admin' = [admin EXCEPT !.content = c]
  /\ UNCHANGED <<now, ticks, store, written, generated, validated, exchanged, req, client, secretName, secret, secretsCache>>

\* An adminTests that falls back to placeholder data without an API key.
AdminWithApiKeyDevMode(q, apiKey) ==
  IF apiKey = ""
  THEN Done(q, AdminResponse(200, "", "mock"))
  ELSE [q EXCEPT !.pc = "awaitAdminFetch", !.apiKey = apiKey, !.providerCalls = @ + 1]

\* adminTests once the API key is known (lines 83-103).
AdminWithApiKey(q, apiKey) ==
  IF apiKey = ""
  THEN Done(q, AdminResponse(500, "TestPortal API key is not configured", ""))
  ELSE [q EXCEPT !.pc = "awaitAdminFetch", !.apiKey = apiKey, !.providerCalls = @ + 1]

\* adminTests after the password check (line 83): getTestPortalApiKey.
AdminAfterAuth(q) ==
  IF ~secretName THEN AdminWithApiKey(q, "")
  ELSE IF secretsCache # NotCached THEN AdminWithApiKey(q, ApiKeyOf(secretsCache))
  ELSE [q EXCEPT !.pc = "awaitAdminKey", !.secretCalls = @ + 1]

\* A handler that accepts any password once one is configured.
AdminAfterPasswordNoCompare(q, expected) ==
  IF expected = ""
  THEN Done([q EXCEPT !.expected = expected],
            AdminResponse(500, "Admin password is not configured", ""))
  ELSE IF q.kind = "adminLogin"
  THEN Done([q EXCEPT !.expected = expected], AdminResponse(200, "", "ok"))
  ELSE AdminAfterAuth([q EXCEPT !.expected = expected])

\* Both admin handlers once getAdminPassword has returned expected
\* (part_001 lines 73-81, part_000 lines 59-70).
AdminAfterPassword(q, expected) ==
  IF expected = ""
  THEN Done([q EXCEPT !.expected = expected],
            AdminResponse(500, "Admin password is not configured", ""))
  ELSE IF q.password.s # expected
  THEN Done([q EXCEPT !.expected = expected],
            AdminResponse(401, "Invalid credentials", ""))
  ELSE IF q.kind = "adminLogin"
  THEN Done([q EXCEPT !.expected = expected], AdminResponse(200, "", "ok"))
  ELSE AdminAfterAuth([q EXCEPT !.expected = expected])

\* getAdminPassword up to the await inside getSecret.
AdminLookupPassword(q) ==
  IF ~admin.name THEN AdminAfterPassword(q, "")
  ELSE IF admin.cache # NotCached THEN AdminAfterPassword(q, PasswordOf(admin.cache))
  ELSE [q EXCEPT !.pc = "awaitAdminSecret", !.adminCalls = @ + 1]

\* adminTests handler up to its first await (lines 46-73).
AdminTestsStart(r) ==
  /\ Delivered
  /\ req[r].pc = "idle"
  /\ \E inp \in AdminTestsEvents :
       LET ev == inp[1]
           password == extractPassword(inp[2])
           q == [Idle EXCEPT !.kind = "adminTests", !.ev = ev, !.pw = inp[2],
                             !.password = IF password = "" THEN Undefined
                                          ELSE Str(password)]
       IN req' = [req EXCEPT ![r] =
            IF AdminBoundaryStatus(ev, "GET") # 0
              THEN Done(q, AdminBoundaryResponse(AdminBoundaryStatus(ev, "GET")))
            ELSE IF password = ""
              THEN Done(q, AdminResponse(401, "Missing admin password", ""))
            ELSE AdminLookupPassword(q)]
  /\ UNCHANGED <<now, ticks, store, written, generated, validated, exchanged, admin, client, secretName, secret, secretsCache>>

\* adminLogin handler up to its first await (part_000 lines 26-59).
AdminLoginStart(r) ==
  /\ Delivered
  /\ req[r].pc = "idle"
  /\ \E inp \in AdminLoginEvents :
       LET ev == inp[1]
           q == [Idle EXCEPT !.kind = "adminLogin", !.ev = ev, !.password = inp[2]]
       IN req' = [req EXCEPT ![r] =
            IF AdminBoundaryStatus(ev, "POST") # 0
              THEN Done(q, AdminBoundaryResponse(AdminBoundaryStatus(ev, "POST")))
            ELSE IF JsonParseFails(ev.body)
              THEN Done(q, AdminResponse(400, "Invalid JSON in request body", ""))
            ELSE IF ev.body.shape # "object" \/ ~IsString(inp[2]) \/ inp[2].s = ""
              THEN Done(q, AdminResponse(400, "Password is required", ""))
            ELSE AdminLookupPassword(q)]
  /\ UNCHANGED <<now, ticks, store, written, generated, validated, exchanged, admin, client, secretName, secret, secretsCache>>

\* The GetSecretValueCommand for the admin password settles;
\* getAdminPassword returns and the handler goes on.
AdminSecretReturn(r) ==
  /\ Delivered
  /\ req[r].pc = "awaitAdminSecret"
  /\ \E outcome \in {"ok", "error"} :
       LET value == GetSecretResult(outcome, admin.content)
       IN /\ admin' = [admin EXCEPT !.cache = CacheAfterGet(@, value)]
          /\ req' = [req EXCEPT ![r] = AdminAfterPassword(req[r], PasswordOf(value))]
  /\ UNCHANGED <<now, ticks, store, written, generated, validated, exchanged, client, secretName, secret, secretsCache>>

\* The GetSecretValueCommand for the API key settles in adminTests.
AdminKeyReturn(r) ==
  /\ Delivered
  /\ req[r].pc = "awaitAdminKey"
  /\ \E outcome \in {"ok", "error"} :
       LET value == GetSecretResult(outcome, secret)
       IN /\ secretsCache' = CacheAfterGet(secretsCache, value)
          /\ req' = [req EXCEPT ![r] =
               AdminWithApiKey([req[r] EXCEPT !.secretOutcome = outcome], ApiKeyOf(value))]
  /\ UNCHANGED <<now, ticks, store, written, generated, validated, exchanged, admin, client, secretName, secret>>

\* fetch of the tests headers settles; adminTests answers.
AdminFetchReturn(r) ==
  /\ Delivered
  /\ req[r].pc = "awaitAdminFetch"
  /\ \E reply \in TestsReplies :
       req' = [req EXCEPT ![r] = Done([req[r] EXCEPT !.reply = reply], TestsResponse(reply))]
  /\ UNCHANGED <<now, ticks, store, written, generated, validated, exchanged, admin, client, secretName, secret, secretsCache>>

\* ------------------------------------------------------------ client
\* window.circleUser is set, replaced or cleared.
SetUser ==
  /\ client.script # ""
  /\ \E u \in Users \ {client.user} : client' = [client EXCEPT !.user = u]
  /\ UNCHANGED <<now, ticks, store, written, generated, validated, exchanged, req, admin, secretName, secret, secretsCache>>

\* The page renders link a as a new element.
RenderLink(a) ==
  /\ client.script # ""
  /\ client.links[a] # Link(TRUE, FALSE, 0)
  /\ client' = [client EXCEPT !.links[a] = Link(TRUE, FALSE, 0)]
  /\ UNCHANGED <<now, ticks, store, written, generated, validated, exchanged, req, admin, secretName, secret, secretsCache>>

\* An updater that binds a link whether or not it is marked.
UpdatedLinkUnmarked(l, a) ==
  IF l.present /\ TestIdOf(a) \notin {"", "PLACEHOLDER_TESTID"}
  THEN Link(TRUE, TRUE, IF l.listeners < 2 THEN l.listeners + 1 ELSE l.listeners)
  ELSE l

\* The body of links.forEach in updateTestportal for link a: a link that
\* is not marked and has a test id gets the click listener and the mark.
UpdatedLink(l, a) ==
  IF l.present /\ ~l.handled /\ TestIdOf(a) \notin {"", "PLACEHOLDER_TESTID"}
  THEN Link(TRUE, TRUE, l.listeners + 1)
  ELSE l

\* updateTestportal runs (first call, interval, MutationObserver callback
\* or load event); a run is not interrupted.
UpdateTestportal ==
  /\ client.script # ""
  /\ client.user # "none"
  /\ \E a \in LinkIds : client.links[a].present
  /\ client' = [client EXCEPT
       !.links = [a \in LinkIds |-> UpdatedLink(client.links[a], a)]]
  /\ UNCHANGED <<now, ticks, store, written, generated, validated, exchanged, req, admin, secretName, secret, secretsCache>>

\* One click listener of link a starts to handle click number k: the user
\* check (and in part_004 the email check of launchTest), then the token
\* request is sent.
StartFlow(a, k) ==
  LET q == [NoFlow EXCEPT !.click = k, !.link = a, !.user = client.user]
  IN IF client.user = "none"
       THEN [q EXCEPT !.pc = "ended", !.alert = "Please log in to start the test."]
     ELSE IF client.script = "part_004" /\ client.user = "bare"
       THEN [q EXCEPT !.pc = "ended",
                      !.alert = "Unable to determine your email address. Please try again."]
     ELSE [q EXCEPT !.pc = "tokenFetch", !.tokenRequests = 1]

\* The user clicks link a: every click listener of the link is called.
Click(a) ==
  /\ client.script # ""
  /\ client.links[a].present
  /\ client.links[a].listeners > 0
  /\ \E S \in SUBSET Flows :
       /\ Cardinality(S) = client.links[a].listeners
       /\ \A f \in S : client.flows[f].pc = "idle"
       /\ client' = [client EXCEPT
            !.clicks = @ + 1,
            !.flows = [f \in Flows |->
                         IF f \in S THEN StartFlow(a, client.clicks + 1)
                         ELSE client.flows[f]]]
  /\ UNCHANGED <<now, ticks, store, written, generated, validated, exchanged, req, admin, secretName, secret, secretsCache>>

\* The handler of invocation f once requestToken of the script has
\* returned token ("" for null): alert and return, or the access-code
\* request is sent with that token.
AfterToken(q, token) ==
  IF token = ""
  THEN [q EXCEPT !.pc = "ended",
                 !.alert = "We could not prepare the test. Please try again."]
  ELSE [q EXCEPT !.pc = "codeFetch", !.token = token, !.sentToken = token,
                 !.codeRequests = @ + 1]

\* submitStartTest of part_003 (the form is not submitted without first
\* and last name) and submitToTestportal of part_004.
Submit(q, script) ==
  IF script = "part_003" /\ q.user = "bare"
  THEN [q EXCEPT !.pc = "ended",
                 !.alert = "Please add your first and last name to start this test."]
  ELSE [q EXCEPT !.pc = "submitted", !.submits = @ + 1]

\* The handler once requestAccessCode of the script has returned
\* accessCode ("" for null): alert and return, or the start is submitted.
AfterAccessCode(q, accessCode, script) ==
  IF accessCode = ""
  THEN [q EXCEPT !.pc = "ended",
                 !.alert = "We could not retrieve your test access code. Please try again."]
  ELSE Submit([q EXCEPT !.accessCode = accessCode], script)

\* The token request of invocation f reaches the requestToken handler.
ClientIssue(f) ==
  /\ client.flows[f].pc = "tokenFetch"
  /\ IssueStart(f)
  /\ req'[f].ev = ClientTokenEvent

\* A script that asks for a token once more when the first request failed.
TokenResponseRetry(f) ==
  /\ client.flows[f].pc = "tokenFetch"
  /\ req[f].kind = "issue" /\ req[f].pc = "done"
  /\ LET token == IF req[f].threw THEN "" ELSE ClientToken(req[f].resp)
     IN client' = [client EXCEPT !.flows[f] =
          IF token = "" /\ @.tokenRequests < 2
          THEN [@ EXCEPT !.tokenRequests = @ + 1]
          ELSE AfterToken(@, token)]
  /\ req' = [req EXCEPT ![f] = Idle]
  /\ UNCHANGED <<now, ticks, store, written, generated, validated, exchanged, admin, secretName, secret, secretsCache>>

\* The response to the token request arrives and the handler goes on.
TokenResponse(f) ==
  /\ client.flows[f].pc = "tokenFetch"
  /\ req[f].kind = "issue" /\ req[f].pc = "done"
  /\ LET token == IF req[f].threw THEN "" ELSE ClientToken(req[f].resp)
     IN client' = [client EXCEPT !.flows[f] = AfterToken(@, token)]
  /\ req' = [req EXCEPT ![f] = Idle]
  /\ UNCHANGED <<now, ticks, store, written, generated, validated, exchanged, admin, secretName, secret, secretsCache>>

\* The access-code request of invocation f reaches the getAccessCode
\* handler.
ClientExchange(f) ==
  /\ client.flows[f].pc = "codeFetch"
  /\ req[f].pc = "idle"
  /\ ExchangeOn(f, ClientCodeEvent(client.script, client.flows[f].sentToken,
                                   TestIdOf(client.flows[f].link)))
  /\ UNCHANGED <<now, ticks, store, written, generated, validated, exchanged, admin, client, secretName, secret, secretsCache>>

\* The response to the access-code request arrives and the handler goes
\* on.
CodeResponse(f) ==
  /\ client.flows[f].pc = "codeFetch"
  /\ req[f].kind = "exchange" /\ req[f].pc = "done"
  /\ LET accessCode == IF req[f].threw THEN "" ELSE ClientAccessCode(req[f].resp)
     IN client' = [client EXCEPT !.flows[f] =
          AfterAccessCode(@, accessCode, client.script)]
  /\ req' = [req EXCEPT ![f] = Idle]
  /\ UNCHANGED <<now, ticks, store, written, generated, validated, exchanged, admin, secretName, secret, secretsCache>>

\* fetch rejects: the request of invocation f never reaches the backend.
FetchFails(f) ==
  /\ client.flows[f].pc \in {"tokenFetch", "codeFetch"}
  /\ req[f].pc = "idle"
  /\ client' = [client EXCEPT !.flows[f] =
       IF @.pc = "tokenFetch" THEN AfterToken(@, "")
       ELSE AfterAccessCode(@, "", client.script)]
  /\ UNCHANGED <<now, ticks, store, written, generated, validated, exchanged, req, admin, secretName, secret, secretsCache>>

\* ------------------------------------------------------------ behaviours
Next ==
  \/ Tick
  \/ Evict
  \/ SetSecret
  \/ \E r \in Reqs : IssueStart(r)
  \/ \E r \in Reqs : PutReturn(r)
  \/ \E r \in Reqs : ValidateStart(r)
  \/ \E r \in Reqs : ExchangeStart(r)
  \/ \E r \in Reqs : GetReturn(r)
  \/ \E r \in Reqs : SecretReturn(r)
  \/ \E r \in Reqs : FetchReturn(r)
  \/ \E r \in Reqs : Recycle(r)

Spec == Init /\ [][Next]_vars

\* One running instance at a fixed time: requests keep arriving while an
\* operator rotates the secret.  Every awaited call settles and every
\* response is delivered.
RotationNext ==
  \/ SetSecret
  \/ \E r \in Reqs : IssueStart(r)
  \/ \E r \in Reqs : PutReturn(r)
  \/ \E r \in Reqs : ExchangeStart(r)
  \/ \E r \in Reqs : GetReturn(r)
  \/ \E r \in Reqs : SecretReturn(r)
  \/ \E r \in Reqs : FetchReturn(r)
  \/ \E r \in Reqs : Recycle(r)

RotationFairness ==
  /\ WF_vars(\E r \in Reqs : PutReturn(r))
  /\ WF_vars(\E r \in Reqs : GetReturn(r))
  /\ WF_vars(\E r \in Reqs : SecretReturn(r))
  /\ WF_vars(\E r \in Reqs : FetchReturn(r))
  /\ WF_vars(\E r \in Reqs : Recycle(r))

RotationSpec == Init /\ [][RotationNext]_vars /\ RotationFairness

\* An exchange request that reaches validateToken's table lookup.
ExchangeStartLookup(r) ==
  /\ ExchangeStart(r)
  /\ req'[r].pc = "awaitGet"

\* Issue and exchange handlers of two invocations interleave at their
\* awaits over one tokens table, in development mode (no secret name); the
\* exchange handler is the caller of validateToken.
ConcurrentInit ==
  /\ now = 0
  /\ ticks = 0
  /\ store = [t \in TokenStrings |-> NoRecord]
  /\ written = [t \in TokenStrings |-> NoRecord]
  /\ generated = {}
  /\ validated = {}
  /\ exchanged = {}
  /\ req = [r \in Reqs |-> Idle]
  /\ secretName = FALSE
  /\ secret = SecretMissing
  /\ secretsCache = NotCached
  /\ admin = AdminUnset
  /\ client = ClientOff

ConcurrentNext ==
  \/ Tick
  \/ Evict
  \/ \E r \in Reqs : IssueStart(r)
  \/ \E r \in Reqs : PutReturn(r)
  \/ \E r \in Reqs : ExchangeStartLookup(r)
  \/ \E r \in Reqs : GetReturn(r)
  \/ \E r \in Reqs : Recycle(r)

ConcurrentSpec == ConcurrentInit /\ [][ConcurrentNext]_vars

\* The token endpoints under the assumption that every store, secret-store
\* and provider call settles and every response is delivered.
TotalNext ==
  \/ Tick
  \/ \E r \in Reqs : IssueStart(r)
  \/ \E r \in Reqs : PutReturn(r)
  \/ \E r \in Reqs : ExchangeStart(r)
  \/ \E r \in Reqs : GetReturn(r)
  \/ \E r \in Reqs : SecretReturn(r)
  \/ \E r \in Reqs : FetchReturn(r)
  \/ \E r \in Reqs : Recycle(r)

TotalSpec == Init /\ [][TotalNext]_vars /\ RotationFairness

\* Two exchange invocations share one secretsCache and interleave at their
\* awaits while an operator changes the secret: getSecret calls for the
\* same name overlap.  Token "t1" has just been issued.
OverlapInit ==
  /\ now = 0
  /\ ticks = 0
  /\ store = [t \in TokenStrings |-> IF t = "t1" THEN StoreTokenItem(0) ELSE NoRecord]
  /\ written = store
  /\ generated = {"t1"}
  /\ validated = {}
  /\ exchanged = {}
  /\ req = [r \in Reqs |-> Idle]
  /\ secretName = TRUE
  /\ secret \in SecretContents
  /\ secretsCache = NotCached
  /\ admin = AdminUnset
  /\ client = ClientOff

OverlapNext ==
  \/ SetSecret
  \/ \E r \in Reqs : ExchangeStartLookup(r)
  \/ \E r \in Reqs : GetReturn(r)
  \/ \E r \in Reqs : SecretReturn(r)
  \/ \E r \in Reqs : FetchReturn(r)
  \/ \E r \in Reqs : Recycle(r)

OverlapSpec == OverlapInit /\ [][OverlapNext]_vars

\* Two exchange requests for token "t1", just issued, whose bodies may
\* carry an email or another field, each served by its own invocation over
\* the same tokens table, secret and provider.
PairInit ==
  /\ now = 0
  /\ ticks = 0
  /\ store = [t \in TokenStrings |-> IF t = "t1" THEN StoreTokenItem(0) ELSE NoRecord]
  /\ written = store
  /\ generated = {"t1"}
  /\ validated = {}
  /\ exchanged = {}
  /\ req = [r \in Reqs |-> Idle]
  /\ secretName = TRUE
  /\ secret \in SecretContents
  /\ secretsCache = NotCached
  /\ admin = AdminUnset
  /\ client = ClientOff

PairNext ==
  \/ SetSecret
  \/ \E r \in Reqs : ExchangePairStart(r)
  \/ \E r \in Reqs : GetReturn(r)
  \/ \E r \in Reqs : SecretReturn(r)
  \/ \E r \in Reqs : FetchReturn(r)
  \/ \E r \in Reqs : Recycle(r)

PairSpec == PairInit /\ [][PairNext]_vars

\* A page of the community site with the link updater, and the two
\* endpoints behind it: links are rendered, updateTestportal runs any
\* number of times, the user clicks, and each click handler takes its
\* steps as the backend answers.
ClientInit ==
  /\ now = 0
  /\ ticks = 0
  /\ store = [t \in TokenStrings |-> NoRecord]
  /\ written = [t \in TokenStrings |-> NoRecord]
  /\ generated = {}
  /\ validated = {}
  /\ exchanged = {}
  /\ req = [r \in Reqs |-> Idle]
  /\ secretName \in BOOLEAN
  /\ secret = IF secretName THEN "k1" ELSE SecretMissing
  /\ secretsCache = NotCached
  /\ admin = AdminUnset
  /\ \E sc \in Scripts, u \in Users : client = Page(sc, u)

ClientNext ==
  \/ SetUser
  \/ \E a \in LinkIds : RenderLink(a)
  \/ UpdateTestportal
  \/ \E a \in LinkIds : Click(a)
  \/ \E f \in Flows : ClientIssue(f)
  \/ \E r \in Reqs : PutReturn(r)
  \/ \E f \in Flows : TokenResponse(f)
  \/ \E f \in Flows : ClientExchange(f)
  \/ \E r \in Reqs : GetReturn(r)
  \/ \E r \in Reqs : SecretReturn(r)
  \/ \E r \in Reqs : FetchReturn(r)
  \/ \E f \in Flows : CodeResponse(f)
  \/ \E f \in Flows : FetchFails(f)

ClientSpec == ClientInit /\ [][ClientNext]_vars

\* The admin surface of one instance: adminTests and adminLogin requests,
\* one at a time, while operators change the two secrets.
AdminInit ==
  /\ now = 0
  /\ ticks = 0
  /\ store = [t \in TokenStrings |-> NoRecord]
  /\ written = [t \in TokenStrings |-> NoRecord]
  /\ generated = {}
  /\ validated = {}
  /\ exchanged = {}
  /\ req = [r \in Reqs |-> IF r = "r1" THEN Idle ELSE Off]
  /\ secretName \in BOOLEAN
  /\ secret \in IF secretName THEN SecretContents ELSE {SecretMissing}
  /\ secretsCache = NotCached
  /\ \E n \in BOOLEAN :
       \E c \in IF n THEN AdminSecretContents ELSE {SecretMissing} :
         admin = AdminSecret(n, c, NotCached)
  /\ client = ClientOff

AdminNext ==
  \/ SetSecret
  \/ SetAdminSecret
  \/ \E r \in Reqs : AdminTestsStart(r)
  \/ \E r \in Reqs : AdminLoginStart(r)
  \/ \E r \in Reqs : AdminSecretReturn(r)
  \/ \E r \in Reqs : AdminKeyReturn(r)
  \/ \E r \in Reqs : AdminFetchReturn(r)
  \/ \E r \in Reqs : Recycle(r)

AdminSpec == AdminInit /\ [][AdminNext]_vars

TypeOK ==
  /\ now \in Nat
  /\ \A r \in Reqs : req[r].pc \in {"off", "idle", "awaitPut", "awaitGet", "awaitSecret", "awaitFetch",
                    "awaitAdminSecret", "awaitAdminKey", "awaitAdminFetch", "done"}

\* ------------------------------------------------------------ properties
\* validateToken has returned in invocation r after reading the table.
Looked(r) == req[r].getOutcome # "none"

\* The expiry the record of r's token was written with.
ExpiryOf(r) == req[r].w.createdAt + TOKEN_TTL_SECONDS

\* C1: in the exchange handler the provider is called only after
\* validateToken has returned true for the request's token in the same
\* request; a request whose token validates false (unknown, expired, lookup
\* failed) is answered 401 and makes no provider call.
C1_ProviderOnlyAfterValid ==
  \A r \in Reqs :
    /\ (req[r].providerCalls > 0 \/ req[r].pc = "awaitFetch") =>
         /\ req[r].kind = "exchange"
         /\ req[r].valid = "true"
         /\ req[r].key = req[r].ev.body.token.s
    /\ (req[r].kind = "exchange" /\ req[r].valid = "false") =>
         /\ req[r].providerCalls = 0
         /\ req[r].pc = "done"
         /\ req[r].resp.statusCode = 401

\* An exchange that called the provider and returned its code.
C1_Witness ==
  \E r \in Reqs :
    /\ req[r].kind = "exchange" /\ req[r].pc = "done"
    /\ req[r].providerCalls = 1 /\ req[r].valid = "true"
    /\ req[r].resp.statusCode = 200 /\ ~req[r].resp.dev

\* C2: no orphan tokens: a token returned in a 200 response of the issue
\* handler has a record in the table whose write was acknowledged before the
\* response; when the write fails the answer is 500 without a token.
C2_NoOrphanTokens ==
  \A r \in Reqs : (req[r].kind = "issue" /\ req[r].pc = "done") =>
    /\ req[r].resp.token # "" =>
         /\ req[r].resp.statusCode = 200
         /\ req[r].putOutcome = "ok"
         /\ req[r].resp.token = req[r].key
         /\ written[req[r].key] = req[r].item
         /\ store[req[r].key] = req[r].item
    /\ req[r].resp.statusCode = 200 => req[r].resp.token # ""
    /\ req[r].putOutcome \in {"error", "lost"} =>
         /\ req[r].resp.statusCode = 500
         /\ req[r].resp.token = ""

\* An issue request answered 200 with its token.
C2_Witness ==
  \E r \in Reqs :
    /\ req[r].kind = "issue" /\ req[r].pc = "done"
    /\ req[r].resp.statusCode = 200 /\ req[r].resp.token \in Tokens
    /\ store[req[r].resp.token].present

\* C3: validateToken returns false at every time at or after createdAt +
\* 15 minutes, the instant now = createdAt + 900 included.
C3_InvalidAtOrAfterExpiry ==
  \A r \in Reqs :
    (Looked(r) /\ req[r].w.present /\ req[r].at >= ExpiryOf(r))
      => req[r].valid = "false"

\* C4: with the table reachable and the record not evicted before its
\* expiry, validateToken returns true for an issued token at every time
\* strictly before createdAt + 15 minutes, the instant of issuance included.
C4_ValidBeforeExpiry ==
  \A r \in Reqs :
    (req[r].getOutcome = "ok" /\ req[r].w.present /\ req[r].at < ExpiryOf(r))
      => req[r].valid = "true"

\* A validation one second before the expiry that returned true.
C4_Witness ==
  \E r \in Reqs :
    /\ req[r].kind = "validate" /\ req[r].pc = "done"
    /\ req[r].getOutcome = "ok" /\ req[r].w.present
    /\ req[r].at = ExpiryOf(r) - 1
    /\ req[r].valid = "true"

\* C5: a record whose expiry is earlier than the current time is invalid
\* whether the table still holds it or has evicted it.
C5_ExpiredInvalidDespiteLag ==
  \A r \in Reqs :
    (Looked(r) /\ req[r].w.present /\ req[r].w.ttl < req[r].at)
      => req[r].valid = "false"

\* A validation that read an expired record still in the table.
C5_Witness ==
  \E r \in Reqs :
    /\ req[r].pc = "done" /\ req[r].getOutcome = "ok"
    /\ req[r].record.present /\ req[r].record.ttl < req[r].at
    /\ req[r].valid = "false"

\* C6: a valid token is not consumed by use: a validation made before the
\* expiry of a token that validated before returns true again, and an
\* exchange made before the expiry of a token that a successful exchange
\* has used is accepted again (never answered 401).
C6_NotSingleUse ==
  \A r \in Reqs :
    (req[r].getOutcome = "ok" /\ req[r].w.present /\ req[r].at < ExpiryOf(r)
       /\ (req[r].usedBefore \/ req[r].exchangedBefore))
      => /\ req[r].valid = "true"
         /\ (req[r].kind = "exchange" /\ req[r].pc = "done")
              => req[r].resp.statusCode \in {200, 502}

\* A second successful exchange with a token a 200 exchange has used.
C6_Witness ==
  \E r \in Reqs :
    /\ req[r].kind = "exchange" /\ req[r].pc = "done"
    /\ req[r].exchangedBefore /\ req[r].usedBefore
    /\ req[r].valid = "true"
    /\ req[r].resp.statusCode = 200

\* An invocation of validateToken or of the exchange handler takes a step.
ReadOnlyStep ==
  \E r \in Reqs : req'[r] # req[r] /\ req'[r].kind \in {"validate", "exchange"}

\* C7: validate and exchange are read-only on the table, whatever their
\* outcome: no record is added, changed or removed by their steps; a record
\* disappears only through the table's own expiry mechanism, after its ttl.
C7_ReadOnly ==
  [][/\ ReadOnlyStep => store' = store
     /\ \A t \in TokenStrings :
          (store[t].present /\ ~store'[t].present)
            => (req' = req /\ store[t].ttl <= now)]_vars

\* An exchange answered 401 for an expired record that is still in the
\* table, unchanged.
C7_Witness ==
  \E r \in Reqs :
    /\ req[r].kind = "exchange" /\ req[r].pc = "done"
    /\ req[r].resp.statusCode = 401
    /\ req[r].record.present
    /\ store[req[r].key] = req[r].w

\* C8: the validity window is fixed at issuance and never extended: every
\* record in the table has ttl = createdAt + 900, and no step changes the
\* ttl or createdAt of a record that stays in the table.
C8_WindowFixed ==
  [][/\ \A t \in TokenStrings :
          store'[t].present => store'[t].ttl = store'[t].createdAt + TOKEN_TTL_SECONDS
     /\ \A t \in TokenStrings :
          (store[t].present /\ store'[t].present) => store'[t] = store[t]]_vars

\* Two records issued at different times, one of them validated since, both
\* with the expiry they were written with.
C8_Witness ==
  \E t, u \in Tokens :
    /\ store[t].present /\ store[u].present
    /\ store[t].createdAt < store[u].createdAt
    /\ t \in validated
    /\ store[t] = written[t]

\* C9: validateToken is total: every call returns a boolean and never
\* throws; when the lookup fails the result is false.
C9_ValidateTotal ==
  \A r \in Reqs :
    /\ ~req[r].threw
    /\ (req[r].kind = "validate" /\ req[r].pc = "done")
         => req[r].valid \in {"true", "false"}
    /\ req[r].getOutcome = "error" => req[r].valid = "false"

\* A direct call whose lookup failed and that returned false.
C9_Witness ==
  \E r \in Reqs :
    /\ req[r].kind = "validate" /\ req[r].pc = "done"
    /\ req[r].getOutcome = "error"
    /\ req[r].valid = "false"

\* C10: validateToken called with an empty or non-string token returns
\* false without a lookup.
C10_BadFormatNoLookup ==
  \A r \in Reqs :
    (req[r].kind = "validate" /\ (~IsString(req[r].arg) \/ req[r].arg.s = ""))
      => /\ req[r].pc = "done"
         /\ req[r].valid = "false"
         /\ req[r].lookups = 0
         /\ req[r].getOutcome = "none"

\* A direct call with a non-empty non-string argument, answered false.
C10_Witness ==
  \E r \in Reqs :
    /\ req[r].kind = "validate" /\ req[r].pc = "done"
    /\ req[r].arg = Num("42")
    /\ req[r].valid = "false" /\ req[r].lookups = 0

\* C11: a never-issued token is rejected: validateToken returns false for a
\* string that has no record in the table, and an exchange with such a
\* token and a non-empty testId is answered 401.
C11_NeverIssuedRejected ==
  \A r \in Reqs :
    (Looked(r) /\ (~req[r].w.present
                     \/ (req[r].getOutcome = "ok" /\ ~req[r].record.present))) =>
      /\ req[r].valid = "false"
      /\ req[r].kind = "exchange" =>
           /\ req[r].pc = "done"
           /\ req[r].resp.statusCode = 401
           /\ req[r].resp.accessCode = ""

\* An exchange with a string generateToken never returned, looked up
\* without error and answered 401.
C11_Witness ==
  \E r \in Reqs :
    /\ req[r].kind = "exchange" /\ req[r].pc = "done"
    /\ req[r].key = NeverIssued /\ req[r].getOutcome = "ok"
    /\ req[r].ev.body.testId.s # ""
    /\ req[r].resp.statusCode = 401

\* The body of the request is not an object with a non-empty string token
\* and a non-empty string testId.
MalformedInput(body) ==
  \/ body.shape # "object"
  \/ body.token.t # "string" \/ body.token.s = ""
  \/ body.testId.t # "string" \/ body.testId.s = ""

\* C12: malformed input to exchange (missing body, body not an object,
\* missing, empty or non-string token or testId) is answered 400 once the
\* request has passed the method and origin checks, and such a request
\* performs no table lookup, no credential lookup and no provider call.
C12_MalformedIsBadRequest ==
  \A r \in Reqs :
    (req[r].kind = "exchange" /\ MalformedInput(req[r].ev.body)) =>
      /\ req[r].pc = "done"
      /\ BoundaryStatus(req[r].ev) = 0 => req[r].resp.statusCode = 400
      /\ req[r].lookups = 0 /\ req[r].getOutcome = "none"
      /\ req[r].secretCalls = 0
      /\ req[r].providerCalls = 0

\* An exchange with a valid token and an empty testId, answered 400.
C12_Witness ==
  \E r \in Reqs :
    /\ req[r].kind = "exchange" /\ req[r].pc = "done"
    /\ req[r].ev.body = Body("object", Str("t1"), Str(""))
    /\ store["t1"].present
    /\ req[r].resp.statusCode = 400 /\ req[r].lookups = 0

\* No provider credential is configured: the secret name is not set, or
\* the secret is missing or empty and no value of it was ever cached.
NoCredential ==
  \/ ~secretName
  \/ (secretsCache = NotCached /\ secret \in {SecretMissing, ""})

\* C13: with no provider credential configured, an exchange with a valid
\* token returns 200 with the mock code "ABC123MOCK" and _dev = true for
\* every testId, and makes no provider call.
C13_DevModeMock ==
  \A r \in Reqs :
    (req[r].kind = "exchange" /\ req[r].valid = "true" /\ NoCredential) =>
      /\ req[r].pc \in {"awaitSecret", "done"}
      /\ req[r].providerCalls = 0
      /\ req[r].pc = "done" =>
           /\ req[r].resp.statusCode = 200
           /\ req[r].resp.accessCode = "ABC123MOCK"
           /\ req[r].resp.dev

\* An exchange for a test the provider does not know, answered with the
\* mock code while the secret is missing.
C13_Witness ==
  \E r \in Reqs :
    /\ req[r].kind = "exchange" /\ req[r].pc = "done"
    /\ req[r].ev.body.testId = Str("bogus")
    /\ secretName /\ secret = SecretMissing /\ req[r].secretCalls = 1
    /\ req[r].resp.statusCode = 200 /\ req[r].resp.dev
    /\ req[r].resp.accessCode = MOCK_ACCESS_CODE

\* C14: dev mode is detectable from the response: a 200 exchange response
\* carries _dev = true exactly when no provider call was made (the code is
\* the mock code); a response carrying a provider-issued code has no _dev.
C14_DevFlagIffDevBranch ==
  \A r \in Reqs :
    (req[r].kind = "exchange" /\ req[r].pc = "done"
       /\ req[r].resp.statusCode = 200) =>
      /\ req[r].resp.dev <=> req[r].providerCalls = 0
      /\ req[r].resp.dev <=> req[r].reply = NoReply
      /\ req[r].resp.dev => req[r].resp.accessCode = MOCK_ACCESS_CODE
      /\ ~req[r].resp.dev =>
           req[r].resp.accessCode \in {req[r].reply.entry.accessCode,
                                       req[r].reply.entry.access_code,
                                       req[r].reply.entry.code} \ {""}

\* A 200 response with a provider-issued code and no _dev flag, and the
\* mock never having been handed out for the token.
C14_Witness ==
  \E r \in Reqs :
    /\ req[r].kind = "exchange" /\ req[r].pc = "done"
    /\ req[r].resp.statusCode = 200
    /\ req[r].reply.ok /\ req[r].resp.accessCode = "P3"
    /\ ~req[r].resp.dev

\* C15: an exchange request makes at most one provider call, exactly one
\* when the token is valid and a credential is configured (a key is cached
\* or was fetched), and a failed provider call is not retried.
C15_OneProviderCall ==
  \A r \in Reqs :
    /\ req[r].providerCalls <= 1
    /\ req[r].kind # "exchange" => req[r].providerCalls = 0
    /\ (req[r].kind = "exchange" /\ req[r].pc = "done" /\ req[r].valid = "true"
          /\ secretName /\ secretsCache # NotCached)
         => req[r].providerCalls = 1
    /\ (req[r].pc = "done" /\ req[r].resp.statusCode = 502)
         => req[r].providerCalls = 1

\* An exchange whose single provider call failed and that answered 502.
C15_Witness ==
  \E r \in Reqs :
    /\ req[r].kind = "exchange" /\ req[r].pc = "done"
    /\ req[r].reply.kind = "throw"
    /\ req[r].providerCalls = 1
    /\ req[r].resp.statusCode = 502

\* The provider's reply carries no usable access code.
NoUsableCode(reply) ==
  \/ ~reply.hasEntry
  \/ (reply.entry.accessCode = "" /\ reply.entry.access_code = ""
       /\ reply.entry.code = "")

\* C16: when the provider answers with a non-success status, with a
\* response without a usable access code, or the call fails, the exchange
\* is answered 502 with the upstream status or reason in the body; it is
\* not answered 400 or 401 and nothing is thrown.
C16_UpstreamFailureIs502 ==
  \A r \in Reqs :
    (req[r].reply # NoReply
       /\ (req[r].reply.kind = "throw" \/ ~req[r].reply.ok
            \/ NoUsableCode(req[r].reply))) =>
      /\ req[r].pc = "done" /\ ~req[r].threw
      /\ req[r].resp.statusCode = 502
      /\ req[r].resp.accessCode = ""
      /\ req[r].resp.error # NoError
      /\ (req[r].reply.kind = "http" /\ ~req[r].reply.ok)
           => req[r].resp.error.status = req[r].reply.status

\* The provider answered HTTP 500 and the exchange answered 502 with the
\* status captured.
C16_Witness ==
  \E r \in Reqs :
    /\ req[r].kind = "exchange" /\ req[r].pc = "done"
    /\ req[r].reply.kind = "http" /\ req[r].reply.status = 500
    /\ req[r].resp.statusCode = 502
    /\ req[r].resp.error.status = 500

\* C17: a request whose token-store call failed is answered in the
\* upstream-unavailable category (500 on issue, 502 or 500 on exchange),
\* never 401, on both endpoints.
C17_StoreFailureIsUpstream ==
  \A r \in Reqs :
    (req[r].pc = "done" /\ req[r].kind \in {"issue", "exchange"}
       /\ (req[r].putOutcome \in {"error", "lost"} \/ req[r].getOutcome = "error")) =>
      /\ req[r].resp.statusCode \in {500, 502}
      /\ req[r].resp.statusCode # 401

\* C18: from a successful provider response the access code is the first
\* of the fields accessCode, access_code, code that carries a value; when
\* none does, the exchange is answered 502 and nothing is thrown.
C18_FieldPriority ==
  \A r \in Reqs :
    (req[r].kind = "exchange" /\ req[r].reply.kind = "http" /\ req[r].reply.ok) =>
      LET e == req[r].reply.entry
          resp == req[r].resp
      IN /\ req[r].pc = "done" /\ ~req[r].threw
         /\ IF ~req[r].reply.hasEntry THEN resp.statusCode = 502
            ELSE IF e.accessCode # ""
              THEN resp.statusCode = 200 /\ resp.accessCode = e.accessCode
            ELSE IF e.access_code # ""
              THEN resp.statusCode = 200 /\ resp.accessCode = e.access_code
            ELSE IF e.code # ""
              THEN resp.statusCode = 200 /\ resp.accessCode = e.code
            ELSE resp.statusCode = 502 /\ resp.error # NoError

\* All three fields carry a value and accessCode was returned.
C18_Witness ==
  \E r \in Reqs :
    /\ req[r].kind = "exchange" /\ req[r].pc = "done"
    /\ req[r].reply.ok /\ req[r].reply.hasEntry
    /\ req[r].reply.entry = Entry("P1", "P2", "P3")
    /\ req[r].resp.statusCode = 200
    /\ req[r].resp.accessCode = "P1"

\* The request's origin header (origin, else Origin) is not the allowed
\* origin.
ForeignOrigin(h) ==
  ~(h.origin = ALLOWED_ORIGIN \/ (h.origin = "" /\ h.Origin = ALLOWED_ORIGIN))

\* C19 as stated: every request from another origin, whatever its method,
\* is answered 403 on the issue and on the exchange endpoint.
C19_ForeignOriginForbidden ==
  \A r \in Reqs :
    (req[r].kind \in {"issue", "exchange"} /\ ForeignOrigin(req[r].ev.headers)) =>
      /\ req[r].pc = "done"
      /\ req[r].resp.statusCode = 403

\* C19 amended: a POST request from another origin is answered 403 on both
\* endpoints, with no store, secret or provider call and no token or access
\* code in the response.
C19_ForeignPostForbidden ==
  \A r \in Reqs :
    (req[r].kind \in {"issue", "exchange"} /\ req[r].ev.method = "POST"
       /\ ForeignOrigin(req[r].ev.headers)) =>
      /\ req[r].pc = "done" /\ ~req[r].threw
      /\ req[r].resp.statusCode = 403
      /\ req[r].resp.token = "" /\ req[r].resp.accessCode = ""
      /\ req[r].puts = 0 /\ req[r].lookups = 0
      /\ req[r].secretCalls = 0 /\ req[r].providerCalls = 0

\* A POST to the exchange endpoint from another origin carrying a stored,
\* unexpired token was answered 403.
C19_Witness ==
  \E r \in Reqs :
    /\ req[r].kind = "exchange" /\ req[r].pc = "done"
    /\ req[r].ev.method = "POST"
    /\ req[r].ev.headers.origin = OtherOrigin
    /\ req[r].ev.body = GoodBody
    /\ store["t1"].present /\ now < store["t1"].ttl
    /\ req[r].resp.statusCode = 403

\* C20 as stated: on both endpoints a POST from the allowed origin whose
\* body is not parsable JSON is answered 400.
C20_BadJsonIs400 ==
  \A r \in Reqs :
    (req[r].kind \in {"issue", "exchange"} /\ req[r].pc = "done"
       /\ req[r].ev.method = "POST" /\ ~ForeignOrigin(req[r].ev.headers)
       /\ req[r].ev.body.shape = "badjson") =>
      req[r].resp.statusCode = 400

\* C20 amended: on the exchange endpoint a POST from the allowed origin
\* whose body is not parsable JSON is answered 400 at once, with no store,
\* secret or provider call; the issue endpoint never reads the body and
\* never answers 400.
C20_ExchangeBadJsonIs400 ==
  \A r \in Reqs :
    /\ (req[r].kind = "exchange"
          /\ req[r].ev.method = "POST" /\ ~ForeignOrigin(req[r].ev.headers)
          /\ req[r].ev.body.shape = "badjson") =>
         /\ req[r].pc = "done" /\ ~req[r].threw
         /\ req[r].resp.statusCode = 400
         /\ req[r].lookups = 0 /\ req[r].secretCalls = 0
         /\ req[r].providerCalls = 0
    /\ (req[r].kind = "issue" /\ req[r].pc = "done") =>
         req[r].resp.statusCode # 400

\* An unparsable body carried by a POST from the allowed origin to the
\* exchange endpoint was answered 400.
C20_Witness ==
  \E r \in Reqs :
    /\ req[r].kind = "exchange" /\ req[r].pc = "done"
    /\ req[r].ev.method = "POST" /\ req[r].ev.headers = GoodHeaders
    /\ req[r].ev.body.shape = "badjson"
    /\ req[r].resp.statusCode = 400

\* C21: on both endpoints an OPTIONS request is answered 204 with an
\* empty body, and any other method than POST is answered 405 "Method not
\* allowed", whatever the origin and the body.
C21_PreflightAndMethod ==
  \A r \in Reqs :
    (req[r].kind \in {"issue", "exchange"}) =>
      /\ req[r].ev.method = "OPTIONS" =>
           /\ req[r].pc = "done" /\ ~req[r].threw
           /\ req[r].resp = Response(204, "", "", "", FALSE, NoError)
      /\ req[r].ev.method \notin {"OPTIONS", "POST"} =>
           /\ req[r].pc = "done" /\ ~req[r].threw
           /\ req[r].resp.statusCode = 405
           /\ req[r].resp.message = "Method not allowed"
           /\ req[r].resp.token = "" /\ req[r].resp.accessCode = ""

\* A preflight from another origin to the issue endpoint was answered 204.
C21_Witness ==
  \E r \in Reqs :
    /\ req[r].kind = "issue" /\ req[r].pc = "done"
    /\ req[r].ev.method = "OPTIONS"
    /\ req[r].ev.headers.origin = OtherOrigin
    /\ req[r].resp.statusCode = 204

\* The credential lookup of invocation r has returned; its value is
\* req[r].apiKey.
LookupReturned(r) ==
  /\ req[r].kind = "exchange" /\ req[r].valid = "true"
  /\ req[r].pc \in {"awaitFetch", "done"}

\* C22: a rotated credential is picked up by the running instance: when
\* the secret settles on a key, the secret store answers and credential
\* lookups keep being made, a lookup returns that key again and again.
C22_RotationPickedUp ==
  \A k \in {"k1", "k2"} :
    (/\ <>[](/\ secretName /\ ApiKeyOf(secret) = k
             /\ \A r \in Reqs : req[r].secretOutcome # "error")
     /\ []<>(\E r \in Reqs : LookupReturned(r)))
      => []<>(\E r \in Reqs : LookupReturned(r) /\ req[r].apiKey = k)

\* C23: an issue request that passes the method and origin checks makes
\* exactly one store write attempt, a rejected one makes none, and a failed
\* attempt is answered 500 without a token and without a second attempt.
C23_OneWriteAttempt ==
  \A r \in Reqs :
    (req[r].kind = "issue") =>
      /\ req[r].puts =
           (IF req[r].ev.method = "POST" /\ ~ForeignOrigin(req[r].ev.headers)
            THEN 1 ELSE 0)
      /\ (req[r].pc = "done" /\ req[r].putOutcome \in {"error", "lost"}) =>
           /\ req[r].resp.statusCode = 500
           /\ req[r].resp.token = ""
           /\ ~req[r].threw

\* An issue request whose only PutCommand was refused and that was
\* answered 500.
C23_Witness ==
  \E r \in Reqs :
    /\ req[r].kind = "issue" /\ req[r].pc = "done"
    /\ req[r].putOutcome = "error" /\ req[r].puts = 1
    /\ ~store[req[r].key].present
    /\ req[r].resp.statusCode = 500

\* validateToken of invocation r has read the table without error, and
\* the token's PutCommand had been applied before.
ReadIssued(r) ==
  /\ req[r].kind = "exchange" /\ req[r].getOutcome = "ok"
  /\ req[r].w.present

\* C24: interleaved requests on different tokens do not affect each
\* other (a validation reads nothing but the record its own token was
\* issued with, and its result is that of a run on its own), and
\* validations of the same issued token that read the table at the same
\* time return the same value.
C24_ConcurrentIndependence ==
  /\ \A r \in Reqs :
       ReadIssued(r) =>
         /\ req[r].record \in {NoRecord, req[r].w}
         /\ req[r].valid \in {"true", "false"}
         /\ req[r].at < ExpiryOf(r) => req[r].valid = "true"
  /\ \A r, q \in Reqs :
       (ReadIssued(r) /\ ReadIssued(q) /\ req[r].key = req[q].key
          /\ req[r].at = req[q].at) =>
         req[r].valid = req[q].valid

\* Invocation r of adminTests has looked the provider credential up or
\* contacted the provider.
AdminReachedProvider(r) ==
  \/ req[r].providerCalls > 0 \/ req[r].pc \in {"awaitAdminKey", "awaitAdminFetch"}
  \/ req[r].secretCalls > 0 \/ req[r].apiKey # ""

\* C25: adminTests looks the provider credential up and contacts the
\* list-tests endpoint only for a GET from the admin origin whose password
\* equals the admin password getAdminPassword returned; a missing password,
\* or one that differs from that admin password, is answered 401 with no
\* provider call and no lookup of the provider credential.
C25_AdminPasswordGate ==
  \A r \in Reqs :
    (req[r].kind = "adminTests") =>
      /\ req[r].providerCalls <= 1
      /\ AdminReachedProvider(r) =>
           /\ req[r].ev.method = "GET"
           /\ ~(req[r].pw.x = "" /\ req[r].pw.X = "" /\ req[r].pw.auth = ""
                /\ req[r].pw.Auth = "")
           /\ req[r].password # Undefined
           /\ req[r].expected # ""
           /\ req[r].password.s = req[r].expected
      /\ (req[r].ev.method = "GET" /\ req[r].ev.headers \in
             {AdminGoodHeaders, Headers("", ADMIN_ALLOWED_ORIGIN)}
           /\ (req[r].password = Undefined
                \/ (req[r].expected # "" /\ req[r].password.s # req[r].expected))) =>
           /\ req[r].pc = "done"
           /\ req[r].resp.statusCode = 401
           /\ ~AdminReachedProvider(r)

\* A GET carrying the admin password as a Bearer token got the tests list.
C25_Witness ==
  \E r \in Reqs :
    /\ req[r].kind = "adminTests" /\ req[r].pc = "done"
    /\ req[r].pw = PwHeaders("", "", "Bearer pw", "")
    /\ req[r].expected = "pw"
    /\ req[r].providerCalls = 1
    /\ req[r].resp = AdminResponse(200, "", "D1")

\* No admin password can be obtained: the secret name is not set, or the
\* secret is missing or empty and nothing is cached.
NoAdminPassword ==
  \/ ~admin.name
  \/ (admin.cache = NotCached /\ admin.content \in {SecretMissing, ""})

\* Invocation r passed the boundary of its admin handler and supplied a
\* password.
AdminSuppliedPassword(r) ==
  /\ req[r].ev.headers \in {AdminGoodHeaders, Headers("", ADMIN_ALLOWED_ORIGIN)}
  /\ \/ (req[r].kind = "adminTests" /\ req[r].ev.method = "GET"
          /\ req[r].password # Undefined)
     \/ (req[r].kind = "adminLogin" /\ req[r].ev.method = "POST"
          /\ req[r].ev.body.shape = "object"
          /\ IsString(req[r].password) /\ req[r].password.s # "")

\* C26: without an admin password no admin request is answered 200 and
\* one that supplies a password is answered 500, not 401; without a
\* provider credential an authenticated adminTests request is answered
\* 500 with no provider call and no data.
C26_AdminMisconfigured ==
  \A r \in Reqs :
    (req[r].kind \in {"adminTests", "adminLogin"} /\ req[r].pc = "done") =>
      /\ NoAdminPassword =>
           /\ req[r].resp.statusCode # 200
           /\ req[r].providerCalls = 0
           /\ AdminSuppliedPassword(r) =>
                /\ req[r].resp.statusCode = 500
                /\ req[r].resp.message = "Admin password is not configured"
      /\ (NoCredential /\ req[r].kind = "adminTests" /\ AdminSuppliedPassword(r)
           /\ req[r].expected # "" /\ req[r].password.s = req[r].expected) =>
           /\ req[r].resp = AdminResponse(500, "TestPortal API key is not configured", "")
           /\ req[r].providerCalls = 0

\* An authenticated adminTests request was answered 500 because the
\* provider credential's secret name is not set.
C26_Witness ==
  \E r \in Reqs :
    /\ req[r].kind = "adminTests" /\ req[r].pc = "done"
    /\ ~secretName
    /\ req[r].expected = "pw2" /\ req[r].password = Str("pw2")
    /\ req[r].resp.statusCode = 500
    /\ req[r].providerCalls = 0

\* Invocation r was turned away by the method or origin check.
RejectedAtBoundary(r) ==
  /\ req[r].kind \in {"issue", "exchange"}
  /\ (req[r].ev.method # "POST" \/ ForeignOrigin(req[r].ev.headers))

\* C27: a request rejected at the boundary (204, 405, 403) reads and
\* writes no token record, looks no credential up and calls no provider;
\* a record appears in the tokens table only by the PutCommand of an issue
\* request that used POST and carried the allowed origin.
C27_BoundaryGuardsStore ==
  [][/\ \A r \in Reqs :
         RejectedAtBoundary(r)' =>
           /\ req'[r].pc = "done"
           /\ req'[r].resp.statusCode \in {204, 405, 403}
           /\ req'[r].puts = 0 /\ req'[r].lookups = 0
           /\ req'[r].getOutcome = "none" /\ req'[r].key = ""
           /\ req'[r].secretCalls = 0 /\ req'[r].providerCalls = 0
           /\ store' = store /\ generated' = generated
     /\ \A t \in TokenStrings :
         (store'[t].present /\ store'[t] # store[t]) =>
           \E r \in Reqs :
             /\ req[r].kind = "issue" /\ req[r].pc = "awaitPut"
             /\ req[r].key = t /\ req[r].puts = 1
             /\ req[r].ev.method = "POST"
             /\ ~ForeignOrigin(req[r].ev.headers)
             /\ store'[t] = req[r].item]_vars

\* A POST to the issue endpoint from another origin was answered 403 and
\* left the table with the one record an earlier issue request wrote.
C27_Witness ==
  \E r \in Reqs :
    /\ req[r].kind = "issue" /\ req[r].pc = "done"
    /\ req[r].ev.method = "POST" /\ ForeignOrigin(req[r].ev.headers)
    /\ req[r].resp.statusCode = 403
    /\ generated = {"t1"}
    /\ store["t1"].present /\ ~store["t2"].present

\* C28: the exchange handler's response is that of the first failing
\* check in the order preflight (204), method (405), origin (403), JSON
\* parse (400), required fields (400), token validation (401), then the
\* credential lookup and provider exchange (200 or 502); an invocation
\* still running has passed every check before the call it waits for.
C28_CheckOrder ==
  \A r \in Reqs :
    (req[r].kind = "exchange") =>
      LET ev == req[r].ev
          status == req[r].resp.statusCode
          early == \/ ev.method # "POST" \/ ForeignOrigin(ev.headers)
                   \/ ev.body.shape = "badjson" \/ MalformedInput(ev.body)
      IN /\ req[r].pc = "done" =>
              status =
                (IF ev.method = "OPTIONS" THEN 204
                 ELSE IF ev.method # "POST" THEN 405
                 ELSE IF ForeignOrigin(ev.headers) THEN 403
                 ELSE IF ev.body.shape = "badjson" THEN 400
                 ELSE IF MalformedInput(ev.body) THEN 400
                 ELSE IF req[r].valid # "true" THEN 401
                 ELSE IF status = 200 THEN 200 ELSE 502)
         /\ (req[r].pc = "done" /\ ev.method = "POST" /\ ~ForeignOrigin(ev.headers)) =>
              (req[r].resp.message = "Invalid JSON in request body")
                = (ev.body.shape = "badjson")
         /\ req[r].pc # "done" => ~early
         /\ early => req[r].valid = "none" /\ req[r].lookups = 0
         /\ (req[r].pc \in {"awaitSecret", "awaitFetch"}
               \/ req[r].secretCalls > 0 \/ req[r].providerCalls > 0) =>
              req[r].valid = "true"

\* A POST from another origin with an unparsable body was answered 403.
C28_Witness ==
  \E r \in Reqs :
    /\ req[r].kind = "exchange" /\ req[r].pc = "done"
    /\ req[r].ev.method = "POST" /\ ForeignOrigin(req[r].ev.headers)
    /\ req[r].ev.body.shape = "badjson"
    /\ req[r].resp.statusCode = 403

\* C29: both handlers are total.  No exception leaves a handler, a
\* response exists exactly when the invocation has returned, its status is
\* one of 200, 204, 400, 401, 403, 405, 502 for exchange and one of 200,
\* 204, 403, 405, 500 for issue, and, every call settling, every invocation
\* returns.
C29_HandlersTotal ==
  /\ [](\A r \in Reqs :
          (req[r].kind \in {"issue", "exchange"}) =>
            /\ ~req[r].threw
            /\ (req[r].resp # NoResponse) = (req[r].pc = "done")
            /\ (req[r].pc = "done" /\ req[r].kind = "exchange") =>
                 req[r].resp.statusCode \in {200, 204, 400, 401, 403, 405, 502}
            /\ (req[r].pc = "done" /\ req[r].kind = "issue") =>
                 req[r].resp.statusCode \in {200, 204, 403, 405, 500})
  /\ \A r \in Reqs :
       (req[r].kind \in {"issue", "exchange"}) ~> (req[r].pc = "done")

\* An exchange whose provider call threw has returned 502.
C29_Witness ==
  \E r \in Reqs :
    /\ req[r].kind = "exchange" /\ req[r].pc = "done"
    /\ req[r].reply.kind = "throw" /\ ~req[r].threw
    /\ req[r].resp.statusCode = 502
    /\ req[r].resp.error # NoError

\* C30: an exchange with a valid token whose credential lookup yields no
\* value (secret name unset, secret-store error, secret missing, secret
\* empty) is answered 200 with the mock code and the dev-mode flag, with no
\* provider call and never an error status.
C30_NoValueMeansDevMode ==
  \A r \in Reqs :
    (req[r].kind = "exchange" /\ req[r].valid = "true"
       /\ \/ ~secretName
          \/ req[r].secretOutcome = "error"
          \/ (req[r].secretOutcome = "ok" /\ secretsCache = NotCached
              /\ secret \in {SecretMissing, ""})) =>
      /\ req[r].pc = "done" /\ ~req[r].threw
      /\ req[r].resp = Response(200, "", "", MOCK_ACCESS_CODE, TRUE, NoError)
      /\ req[r].providerCalls = 0

\* The secret holds a key but the secret store failed: the exchange was
\* answered with the mock code.
C30_Witness ==
  \E r \in Reqs :
    /\ req[r].kind = "exchange" /\ req[r].pc = "done"
    /\ secretName /\ secret = "k1"
    /\ req[r].secretOutcome = "error"
    /\ req[r].resp.statusCode = 200 /\ req[r].resp.dev
    /\ req[r].resp.accessCode = MOCK_ACCESS_CODE

\* C31: once getSecret has retrieved a value for the secret name, the cache
\* entry never changes again, no later call contacts the secret store, and
\* every later credential lookup returns the key of the cached value,
\* whatever the secret's content has become.
C31_CachedForever ==
  [][secretsCache # NotCached =>
       /\ secretsCache' = secretsCache
       /\ \A r \in Reqs :
            /\ req'[r].pc # "awaitSecret"
            /\ req'[r].secretCalls <= req[r].secretCalls
            /\ (LookupReturned(r)' /\ ~LookupReturned(r)) =>
                 req'[r].apiKey = ApiKeyOf(secretsCache)]_vars

\* The secret was rotated after it was cached, and an exchange got the
\* cached key without a call to the secret store.
C31_Witness ==
  \E r \in Reqs :
    /\ LookupReturned(r) /\ req[r].secretCalls = 0
    /\ secretName /\ secretsCache = "k1" /\ secret = JsonSecret
    /\ req[r].apiKey = "k1"

\* C32: absence of the credential is never memoized.  A lookup that is
\* answered in development mode leaves the cache as it was; while nothing
\* is cached, every exchange with a valid token asks the secret store
\* again; and when that lookup finds a value, the provider is called with
\* its key (no mock code) and the value is cached.
C32_AbsenceNotMemoized ==
  [][\A r \in Reqs :
       /\ (req[r].pc = "awaitSecret" /\ req'[r].pc = "done") =>
            /\ secretsCache' = secretsCache
            /\ req'[r].resp.dev
       /\ (secretName /\ secretsCache = NotCached
             /\ req'[r].kind = "exchange"
             /\ req[r].valid # "true" /\ req'[r].valid = "true") =>
            /\ req'[r].pc = "awaitSecret"
            /\ req'[r].secretCalls = 1
       /\ (req[r].pc = "awaitSecret" /\ req'[r].secretOutcome = "ok"
             /\ secret \notin {SecretMissing, ""}) =>
            /\ req'[r].pc = "awaitFetch"
            /\ req'[r].providerCalls = 1
            /\ req'[r].apiKey = ApiKeyOf(secret)
            /\ secretsCache' = secret]_vars

\* An earlier exchange of the same token was answered 200; it was answered
\* in development mode, as a provider call would have left a cached value
\* and this exchange made its own secret-store lookup.  The lookup found
\* the credential and the provider is being called.
C32_Witness ==
  \E r \in Reqs :
    /\ req[r].kind = "exchange" /\ req[r].pc = "awaitFetch"
    /\ req[r].exchangedBefore
    /\ req[r].secretCalls = 1 /\ req[r].secretOutcome = "ok"
    /\ req[r].providerCalls = 1 /\ req[r].apiKey = "k1"
    /\ secretsCache = "k1"

\* The value the secret store hands to the lookup of invocation q when it
\* answers now; "" when it fails or has no value.
Fetched(q) == GetSecretResult(q.secretOutcome, secret)

\* C33: with overlapping getSecret calls for the uncached name, every call
\* that contacted the secret store gives its caller the value its own
\* lookup fetched, whatever another call has cached meanwhile, and a call
\* that fetched a value overwrites the cache entry with it: the entry is
\* the value of the last call that completed with a value.
C33_LastWriteWins ==
  [][\A r \in Reqs :
       (req[r].pc = "awaitSecret" /\ req'[r].pc # "awaitSecret") =>
         IF Fetched(req'[r]) = ""
         THEN /\ req'[r].pc = "done" /\ req'[r].resp.dev
              /\ secretsCache' = secretsCache
         ELSE /\ req'[r].pc = "awaitFetch"
              /\ req'[r].apiKey = ApiKeyOf(Fetched(req'[r]))
              /\ secretsCache' = Fetched(req'[r])]_vars

\* Both invocations contacted the secret store; "r1" fetched k1 and "r2"
\* fetched the rotated secret, and the cache holds what "r2", the later
\* one to complete, wrote.
C33_Witness ==
  /\ req["r1"].pc = "awaitFetch" /\ req["r1"].secretCalls = 1
  /\ req["r1"].apiKey = "k1"
  /\ req["r2"].pc = "awaitFetch" /\ req["r2"].secretCalls = 1
  /\ req["r2"].apiKey = "k2"
  /\ secretsCache = JsonSecret

\* C34: an invocation of the token endpoints asks the secret store for the
\* provider credential only in an exchange request whose token validateToken
\* has found valid after its table lookup; a request answered 204, 400,
\* 401, 403 or 405, an issue request and a direct validation make no
\* credential lookup and no provider call.
C34_LookupAfterValidation ==
  \A r \in Reqs :
    /\ (req[r].secretCalls > 0 \/ req[r].pc = "awaitSecret") =>
         /\ req[r].kind = "exchange"
         /\ req[r].valid = "true"
         /\ req[r].lookups = 1 /\ req[r].getOutcome = "ok"
         /\ BoundaryStatus(req[r].ev) = 0
         /\ validateRequestBody(req[r].ev.body)
    /\ (req[r].pc = "done" /\ ~req[r].threw
          /\ req[r].kind \in {"issue", "exchange"}
          /\ req[r].resp.statusCode \in {204, 400, 401, 403, 405}) =>
         /\ req[r].secretCalls = 0
         /\ req[r].secretOutcome = "none"
         /\ req[r].providerCalls = 0

\* A credential is configured and not yet cached; an exchange whose token
\* the table does not hold was answered 401 without a credential lookup.
C34_Witness ==
  \E r \in Reqs :
    /\ req[r].kind = "exchange" /\ req[r].pc = "done"
    /\ req[r].resp.statusCode = 401
    /\ req[r].lookups = 1 /\ req[r].getOutcome = "ok"
    /\ secretName /\ secret = "k1" /\ secretsCache = NotCached
    /\ req[r].secretCalls = 0

\* Requests a and b have the same method and origin headers and the same
\* token and testId.
SameTokenAndTest(a, b) ==
  /\ a.ev.method = b.ev.method /\ a.ev.headers = b.ev.headers
  /\ a.ev.body.shape = b.ev.body.shape
  /\ a.ev.body.token = b.ev.body.token
  /\ a.ev.body.testId = b.ev.body.testId

\* The credential lookup of request q has returned (from the cache or the
\* secret store; the secret name is set).
CredentialSeen(q) == q.secretCalls > 0 \/ q.apiKey # ""

\* Requests a and b met the same store, credential and provider state:
\* where both read the table they read the same item at the same time,
\* where both looked the credential up they got the same key, and where
\* both called the provider they got the same reply.
SameSurroundings(a, b) ==
  /\ (a.lookups > 0 /\ b.lookups > 0) =>
       (a.getOutcome = b.getOutcome /\ a.record = b.record /\ a.at = b.at)
  /\ (CredentialSeen(a) /\ CredentialSeen(b)) => a.apiKey = b.apiKey
  /\ (a.providerCalls > 0 /\ b.providerCalls > 0) => a.reply = b.reply

\* C35: two answered exchange requests that agree on token and testId and
\* met the same store, credential and provider state have the same status
\* and the same response body, whatever email or other field either body
\* carries.
C35_OnlyTokenAndTestId ==
  \A r1, r2 \in Reqs :
    (/\ req[r1].kind = "exchange" /\ req[r1].pc = "done"
     /\ req[r2].kind = "exchange" /\ req[r2].pc = "done"
     /\ SameTokenAndTest(req[r1], req[r2])
     /\ SameSurroundings(req[r1], req[r2])) =>
      /\ req[r1].resp = req[r2].resp
      /\ req[r1].threw = req[r2].threw
      /\ req[r1].valid = req[r2].valid

\* Two exchanges of the same token and test, one without and one with an
\* email in the body, both got the provider's access code.
C35_Witness ==
  /\ req["r1"].pc = "done" /\ req["r2"].pc = "done"
  /\ SameTokenAndTest(req["r1"], req["r2"])
  /\ SameSurroundings(req["r1"], req["r2"])
  /\ req["r1"].ev.body.email = Undefined
  /\ req["r2"].ev.body.email = Str("student@example.com")
  /\ req["r2"].ev.body.extra = Str("x")
  /\ req["r1"].resp.statusCode = 200 /\ ~req["r1"].resp.dev
  /\ req["r2"].resp.accessCode = req["r1"].resp.accessCode

\* The click handler invocations that have sent an access-code request.
AskedForCode == {f \in Flows : client.flows[f].codeRequests > 0}

\* C36: in every click handler invocation the access-code request is sent
\* only after this invocation's one token request has returned a token,
\* and it carries that token, which no other invocation sends; the
\* start-test submission happens only after this invocation's one
\* access-code request has returned a code; no request is sent twice; and
\* an invocation that failed at a step has ended for good with an alert
\* and nothing submitted.
C36_ClientFlowOrder ==
  /\ [](\A f \in Flows :
          LET q == client.flows[f]
          IN /\ q.tokenRequests <= 1 /\ q.codeRequests <= 1 /\ q.submits <= 1
             /\ q.codeRequests > 0 =>
                  /\ q.tokenRequests = 1
                  /\ q.token # "" /\ q.token \in generated
                  /\ q.sentToken = q.token
                  /\ \A g \in AskedForCode \ {f} :
                       client.flows[g].sentToken # q.sentToken
             /\ (req[f].kind = "exchange") =>
                  (q.pc = "codeFetch" /\ req[f].ev.body.token = Str(q.token))
             /\ q.submits > 0 =>
                  (q.codeRequests = 1 /\ q.accessCode # "" /\ q.pc = "submitted")
             /\ q.pc = "ended" => (q.alert # "" /\ q.submits = 0)
             /\ (q.pc # "idle" /\ q.token = "") =>
                  (q.codeRequests = 0 /\ q.submits = 0))
  /\ [][\A f \in Flows :
          client.flows[f].pc \in {"ended", "submitted"} =>
            client'.flows[f] = client.flows[f]]_vars

\* Two clicks: the first ended at the access-code step with an alert, the
\* second submitted the start of the test; each had its own token.
C36_Witness ==
  \E f, g \in Flows :
    /\ client.flows[f].click = 1 /\ client.flows[g].click = 2
    /\ client.flows[f].pc = "ended" /\ client.flows[f].codeRequests = 1
    /\ client.flows[f].accessCode = "" /\ client.flows[f].token # ""
    /\ client.flows[g].pc = "submitted" /\ client.flows[g].submits = 1
    /\ client.flows[g].token # client.flows[f].token

\* C37: however often updateTestportal runs, a link has at most one click
\* listener, a link with a listener is marked, and every click on a bound
\* link starts exactly one click handler invocation, which sends at most
\* one token request.
C37_BoundOnce ==
  /\ \A a \in LinkIds :
       /\ client.links[a].listeners <= 1
       /\ client.links[a].listeners = 1 => client.links[a].handled
  /\ \A k \in 1..client.clicks :
       Cardinality({f \in Flows : client.flows[f].click = k}) = 1
  /\ \A f \in Flows :
       /\ client.flows[f].click <= client.clicks
       /\ client.flows[f].tokenRequests <= 1
       /\ (client.flows[f].pc # "idle" /\ client.flows[f].user = "full") =>
            client.flows[f].tokenRequests = 1

\* Link "a1" is bound once and was clicked twice; each click started one
\* invocation, and both asked for a token.
C37_Witness ==
  /\ client.links["a1"].handled /\ client.links["a1"].listeners = 1
  /\ client.links["a2"].present /\ ~client.links["a2"].handled
  /\ client.clicks = 2
  /\ \A f \in Flows :
       client.flows[f].link = "a1" /\ client.flows[f].tokenRequests = 1

====
